---------------------------- MODULE Spec2Model ----------------------------
(***************************************************************************)
(* A model of the eBay listing pipeline: the row builders (build_row,      *)
(* make_row, prepare_row_values), the spreadsheet appenders (append_row,   *)
(* find_insert_row, find_next_row, apply_row), the batch driver            *)
(* process_queue and the single-file driver json_to_ebay_excel.main.       *)
(*                                                                         *)
(* Text is a TLA+ string; TLC evaluates Len, SubSeq, Head, Tail and \o on  *)
(* strings, so slicing, trimming and replacing are computed character by   *)
(* character.  Module strings are ASCII, so each non-ASCII character of    *)
(* the replacement tables is written as the ASCII stand-in named below.    *)
(*                                                                         *)
(* A worksheet is the sequence of its rows, 1..max_row; a row is the       *)
(* sequence of its cells.  openpyxl's max_row is the largest row index     *)
(* that holds a cell object, whatever the cell's value, so a row whose     *)
(* cells were cleared (value None) but not deleted still counts.  A row    *)
(* without cell objects below max_row reads as None cells, exactly like a  *)
(* cleared row, so both are a row of None cells here.                      *)
(***************************************************************************)
EXTENDS Integers, Sequences, FiniteSets, TLC

VARIABLES
    pc,          \* position of the running script
    sheet,       \* the worksheet held in memory (wb[...] after load_workbook)
    ret,         \* the last append: its result [ok, target_row]; SpecAppend
                 \* keeps the row_values the call was given with it
    calls,       \* number of append calls made so far
    disk,        \* the workbook files on disk, by path; SpecBatch: the output
                 \* files written, by directory name
    queue,       \* the *.json files in the queue directory, oldest first;
                 \* SpecBatch: the subdirectories of batch-image-sets, sorted
    moved,       \* names of the files now in processed/
    json_files,  \* process_queue: the local list json_files
    processed,   \* process_queue: the local list processed
    idx,         \* process_queue: position of the loop over json_files
    mv,          \* process_queue: position of the loop over processed
    saves,       \* number of completed wb.save calls
    log,         \* the lines printed so far
    args,        \* command line of the run
    text,        \* truncation: the text argument
    limit,       \* truncation: the limit argument
    out,         \* result of the last pure-function call
    first_run    \* process_queue: what the completed first run left, once the
                 \* script is started again

vars == <<pc, sheet, ret, calls, disk, queue, moved, json_files, processed,
          idx, mv, saves, log, args, text, limit, out, first_run>>

---------------------------------------------------------------------------
(* Bounds of the model. *)

\* longest text drawn for the truncation functions
MaxLen == 5
\* largest limit drawn for the truncation functions
MaxLimit == 6
\* most data rows below the header in an initial worksheet
MaxRows == 2
\* most append_row calls in one run of the stand-alone appender
MaxCalls == 2
\* most files in the queue directory
MaxFiles == 2
\* most URLs in one manifest
MaxUrls == 3
\* most files in a drawn image directory
MaxImages == 3

---------------------------------------------------------------------------
(* Cell and payload values: None, str, int, float.  A float is n / 10^e. *)

None == [k |-> "none", s |-> "", n |-> 0, e |-> 0]
PyStr(s) == [k |-> "str", s |-> s, n |-> 0, e |-> 0]
PyInt(n) == [k |-> "int", s |-> "", n |-> n, e |-> 0]
RECURSIVE NormFloat(_, _)
NormFloat(n, e) ==
    IF e > 0 /\ n % 10 = 0 THEN NormFloat(n \div 10, e - 1)
    ELSE [k |-> "float", s |-> "", n |-> n, e |-> e]
PyFloat(n, e) == NormFloat(n, e)

\* Python truthiness of a value
Truthy(v) ==
    CASE v.k = "none" -> FALSE
      [] v.k = "str" -> v.s # ""
      [] OTHER -> v.n # 0

\* `value in ("", None)`
IsBlank(v) == v = None \/ v = PyStr("")

---------------------------------------------------------------------------
(* Strings. *)

\* ASCII stand-ins for the non-ASCII characters of the replacement tables
CH_FFFD == "#"        \* U+FFFD replacement character
CH_RSQUO == "$"       \* U+2019 right single quotation mark
CH_LDQUO == "{"       \* U+201C left double quotation mark
CH_RDQUO == "}"       \* U+201D right double quotation mark
CH_ENDASH == "_"      \* U+2013 en dash
CH_EMDASH == "="      \* U+2014 em dash
CH_ELLIPSIS == "~"    \* U+2026 horizontal ellipsis
CH_BULLET == "^"      \* U+2022 bullet
CH_COPY == "@"        \* U+00A9 copyright sign
CH_A_TILDE == "%"     \* U+00C3 A with tilde
CH_QUARTER == "<"     \* U+00BC one quarter
CH_PILCROW == ">"     \* U+00B6 pilcrow
CH_E_ACUTE == "!"     \* U+00E9 e with acute
CH_U_UML == "?"       \* U+00FC u with diaeresis
CH_O_UML == ";"       \* U+00F6 o with diaeresis
CH_A_GRAVE == "["     \* U+00E0 a with grave

Whitespace == {" ", "\t", "\n"}

CharAt(s, i) == SubSeq(s, i, i)

\* s[:n] for n >= 0
Prefix(s, n) == IF n >= Len(s) THEN s ELSE SubSeq(s, 1, n)

RECURSIVE lstrip(_)
lstrip(s) ==
    IF s # "" /\ Head(s) \in Whitespace THEN lstrip(Tail(s)) ELSE s

RECURSIVE rstrip(_)
rstrip(s) ==
    IF s # "" /\ CharAt(s, Len(s)) \in Whitespace
    THEN rstrip(SubSeq(s, 1, Len(s) - 1))
    ELSE s

strip(s) == rstrip(lstrip(s))

StartsWith(s, p) == Len(s) >= Len(p) /\ SubSeq(s, 1, Len(p)) = p

\* s.replace(bad, good) for a non-empty `bad`: occurrences from the left,
\* not overlapping
RECURSIVE replace(_, _, _)
replace(s, bad, good) ==
    IF s = "" THEN ""
    ELSE IF StartsWith(s, bad)
         THEN good \o replace(SubSeq(s, Len(bad) + 1, Len(s)), bad, good)
         ELSE Head(s) \o replace(Tail(s), bad, good)
EndsWith(s, p) == Len(s) >= Len(p) /\ SubSeq(s, Len(s) - Len(p) + 1, Len(s)) = p

UpperCase == "ABCDEFGHIJKLMNOPQRSTUVWXYZ"
LowerCase == "abcdefghijklmnopqrstuvwxyz"
LowerChar(c) ==
    IF \E i \in 1..26 : CharAt(UpperCase, i) = c
    THEN CharAt(LowerCase, CHOOSE i \in 1..26 : CharAt(UpperCase, i) = c)
    ELSE c
RECURSIVE lower(_)
lower(s) == IF s = "" THEN "" ELSE LowerChar(Head(s)) \o lower(Tail(s))

Digits == "0123456789"
IsDigit(c) == \E i \in 1..10 : CharAt(Digits, i) = c
DigitVal(c) == (CHOOSE i \in 1..10 : CharAt(Digits, i) = c) - 1
AllDigits(s) == \A i \in 1..Len(s) : IsDigit(CharAt(s, i))
RECURSIVE StrToNat(_)
StrToNat(s) ==
    IF s = "" THEN 0
    ELSE 10 * StrToNat(SubSeq(s, 1, Len(s) - 1)) + DigitVal(CharAt(s, Len(s)))
RECURSIVE NatToStr(_)
NatToStr(n) ==
    IF n < 10 THEN CharAt(Digits, n + 1)
    ELSE NatToStr(n \div 10) \o CharAt(Digits, (n % 10) + 1)
RECURSIVE Pow10(_)
Pow10(e) == IF e = 0 THEN 1 ELSE 10 * Pow10(e - 1)

\* str(value) of a scalar
py_str(v) ==
    CASE v.k = "str" -> v.s
      [] v.k = "none" -> "None"
      [] v.k = "int" -> IF v.n < 0 THEN "-" \o NatToStr(-v.n) ELSE NatToStr(v.n)
      [] OTHER ->
           LET a == IF v.n < 0 THEN -v.n ELSE v.n
               frac == a % Pow10(v.e)
               fs == NatToStr(frac)
               zeros == IF v.e > Len(fs) THEN SubSeq("000000000", 1, v.e - Len(fs)) ELSE ""
           IN  (IF v.n < 0 THEN "-" ELSE "") \o NatToStr(a \div Pow10(v.e)) \o "."
               \o (IF v.e = 0 THEN "0" ELSE zeros \o fs)

\* The body of a numeric literal after strip(): sign, digits, optional point.
\* Exponent, inf/nan and digit-separator forms need characters that no
\* modelled input holds.
Unsigned(s) == IF s # "" /\ Head(s) \in {"+", "-"} THEN Tail(s) ELSE s
IsNegative(s) == s # "" /\ Head(s) = "-"
PointAt(s) == IF \E i \in 1..Len(s) : CharAt(s, i) = "."
              THEN CHOOSE i \in 1..Len(s) : CharAt(s, i) = "." /\ \A j \in 1..(i-1) : CharAt(s, j) # "."
              ELSE 0
IntPart(s) == IF PointAt(s) = 0 THEN s ELSE SubSeq(s, 1, PointAt(s) - 1)
FracPart(s) == IF PointAt(s) = 0 THEN "" ELSE SubSeq(s, PointAt(s) + 1, Len(s))

\* float(value): [ok, v]; not ok is ValueError / TypeError
py_float(v) ==
    CASE v.k = "none" -> [ok |-> FALSE, v |-> None]
      [] v.k = "int" -> [ok |-> TRUE, v |-> PyFloat(v.n, 0)]
      [] v.k = "float" -> [ok |-> TRUE, v |-> v]
      [] OTHER ->
           LET u == Unsigned(strip(v.s))
               ip == IntPart(u)
               fp == FracPart(u)
               good == AllDigits(ip) /\ AllDigits(fp) /\ Len(ip) + Len(fp) > 0
               m == StrToNat(ip \o fp)
           IN  IF good
               THEN [ok |-> TRUE,
                     v |-> PyFloat(IF IsNegative(strip(v.s)) THEN -m ELSE m, Len(fp))]
               ELSE [ok |-> FALSE, v |-> None]

\* int(value): [ok, v]; not ok is ValueError / TypeError
py_int(v) ==
    CASE v.k = "none" -> [ok |-> FALSE, v |-> None]
      [] v.k = "int" -> [ok |-> TRUE, v |-> v]
      [] v.k = "float" ->
           LET a == IF v.n < 0 THEN -v.n ELSE v.n
               q == a \div Pow10(v.e)
           IN  [ok |-> TRUE, v |-> PyInt(IF v.n < 0 THEN -q ELSE q)]
      [] OTHER ->
           LET u == Unsigned(strip(v.s))
           IN  IF u # "" /\ AllDigits(u)
               THEN [ok |-> TRUE,
                     v |-> PyInt(IF IsNegative(strip(v.s)) THEN -StrToNat(u) ELSE StrToNat(u))]
               ELSE [ok |-> FALSE, v |-> None]

---------------------------------------------------------------------------
(* Sequences, mappings and payloads. *)

Range(seq) == {seq[i] : i \in DOMAIN seq}

\* list.index(x): 1-based position of the first occurrence
IndexOf(seq, x) == CHOOSE i \in DOMAIN seq : seq[i] = x /\ \A j \in 1..(i-1) : seq[j] # x

\* mapping.get(key, default)
Get(m, key, default) == IF key \in DOMAIN m THEN m[key] ELSE default

\* A JSON object is the sequence of its members <<key, value>>, in file order.
\* {str(key).lower(): value for key, value in payload.items()}: of two keys
\* that differ only in case, the later member wins.
payload_lower(payload) ==
    [f \in {lower(payload[i][1]) : i \in DOMAIN payload} |->
        LET last == CHOOSE i \in DOMAIN payload :
                        /\ lower(payload[i][1]) = f
                        /\ \A j \in DOMAIN payload : lower(payload[j][1]) = f => j <= i
        IN  payload[last][2]]

---------------------------------------------------------------------------
(* The schema: the columns of REQUIRED_HEADERS that any of the scripts     *)
(* names, in the order of the list, and one column ("Relationship") that   *)
(* none of them names; the other columns of the list behave like it.       *)

H_ACTION == "*Action(SiteID=US|Country=US|Currency=USD|Version=1193)"

REQUIRED_HEADERS ==
    << H_ACTION, "Custom label (SKU)", "Category ID", "Category name", "Title",
       "Relationship", "Start price", "Quantity", "Item photo URL", "Condition ID",
       "Description", "Format", "Duration", "Buy It Now price", "Location",
       "Max dispatch time", "Returns accepted option", "Returns within option",
       "Refund option", "Return shipping cost paid by", "Shipping profile name",
       "Return profile name", "Payment profile name", "C:Author", "C:Book Title",
       "C:Language", "C:Publisher", "C:Publication Year", "C:Edition" >>

DEFAULT_VALUES ==
    (H_ACTION :> PyStr("Add")) @@
    ("Category ID" :> PyStr("261186")) @@
    ("Category name" :> PyStr("/Books & Magazines/Books")) @@
    ("Start price" :> PyStr("5.00")) @@
    ("Quantity" :> PyInt(1)) @@
    ("Item photo URL" :> PyStr("https://keith-ebay-images.s3.us-east-2.amazonaws.com/IMG_4929.JPG")) @@
    ("Condition ID" :> PyStr("5000-Good")) @@
    ("Format" :> PyStr("FixedPrice")) @@
    ("Duration" :> PyStr("GTC")) @@
    ("Location" :> PyStr("Newfields, NH")) @@
    ("Shipping profile name" :> PyStr("USPS Media Mail")) @@
    ("Return profile name" :> PyStr("Returns allowed within 30 days")) @@
    ("Payment profile name" :> PyStr("Immediate payment managed via eBay")) @@
    ("C:Language" :> PyStr("English"))

FORCED_BLANK_HEADERS ==
    { "Max dispatch time", "Returns accepted option", "Returns within option",
      "Refund option", "Return shipping cost paid by" }

JSON_FIELD_MAP ==
    ("title" :> "Title") @@ ("author" :> "C:Author") @@ ("edition" :> "C:Edition") @@
    ("year" :> "C:Publication Year") @@ ("publisher" :> "C:Publisher")

\* the JSON field mapped to column h
FieldOf(map, h) == CHOOSE f \in DOMAIN map : map[f] = h

---------------------------------------------------------------------------
(* Text normalisation, truncation and the description. *)

\* the replacement table of normalise_text, applied in the table's order
apply_replacements(t) ==
    LET t1 == replace(t, CH_FFFD, "'")
        t2 == replace(t1, CH_RSQUO, "'")
        t3 == replace(t2, CH_LDQUO, "\"")
        t4 == replace(t3, CH_RDQUO, "\"")
        t5 == replace(t4, CH_ENDASH, "-")
        t6 == replace(t5, CH_EMDASH, "-")
        t7 == replace(t6, CH_ELLIPSIS, "...")
        t8 == replace(t7, CH_BULLET, "-")
    IN  replace(t8, CH_COPY, "(c)")

normalise_text(value) ==
    IF value = None THEN "" ELSE strip(apply_replacements(py_str(value)))

\* truncate with the ellipsis added on top of the whole budget
truncate_full_budget(t, lim) ==
    IF Len(t) <= lim THEN t
    ELSE IF lim <= 3 THEN Prefix(t, lim)
    ELSE rstrip(Prefix(t, lim)) \o "..."

\* truncate that keeps the whitespace in front of the ellipsis
truncate_keep_whitespace(t, lim) ==
    IF Len(t) <= lim THEN t
    ELSE IF lim <= 3 THEN Prefix(t, lim)
    ELSE Prefix(t, lim - 3) \o "..."

truncate(t, lim) ==
    IF Len(t) <= lim THEN t
    ELSE IF lim <= 3 THEN Prefix(t, lim)
    ELSE rstrip(Prefix(t, lim - 3)) \o "..."

truncate_for_excel(value, lim) == truncate(normalise_text(value), lim)

\* "\n\n".join(sections)
RECURSIVE join(_, _)
join(sep, sections) ==
    IF Len(sections) = 0 THEN ""
    ELSE IF Len(sections) = 1 THEN sections[1]
    ELSE sections[1] \o sep \o join(sep, Tail(sections))

\* build_description that keeps the label of an empty section
build_description_labels_kept(pl) ==
    LET blurb == normalise_text(Get(pl, "blurb", None))
        condition == normalise_text(Get(pl, "condition", None))
        details == normalise_text(Get(pl, "details", None))
        s1 == IF blurb # "" THEN <<blurb>> ELSE <<>>
    IN  join("\n\n", s1 \o <<"Condition Notes:\n" \o condition>>
                          \o <<"Collector Details:\n" \o details>>)

build_description(pl) ==
    LET blurb == normalise_text(Get(pl, "blurb", None))
        condition == normalise_text(Get(pl, "condition", None))
        details == normalise_text(Get(pl, "details", None))
        s1 == IF blurb # "" THEN <<blurb>> ELSE <<>>
        s2 == IF condition # "" THEN <<"Condition Notes:\n" \o condition>> ELSE <<>>
        s3 == IF details # "" THEN <<"Collector Details:\n" \o details>> ELSE <<>>
    IN  join("\n\n", s1 \o s2 \o s3)

---------------------------------------------------------------------------
(* build_row of the batch appender (append_json_queue_to_excel). *)

\* the Book Title / Author character budget
BOOK_FIELD_LIMIT == 50

\* row = {header: ""}; row.update(defaults present in row)
row_with_defaults(header_order, defaults) ==
    [h \in Range(header_order) |->
        IF h \in DOMAIN defaults THEN defaults[h] ELSE PyStr("")]

\* the mapping step writing str() of what the payload holds, also for a
\* field the payload does not hold
row_with_fields_str_of_absent(row, map, pl) ==
    [h \in DOMAIN row |->
        IF h \in Range(map)
        THEN IF FieldOf(map, h) \in DOMAIN pl
             THEN PyStr(normalise_text(pl[FieldOf(map, h)]))
             ELSE PyStr("None")
        ELSE row[h]]

\* for json_field, header in JSON_FIELD_MAP.items(): if header in row: ...
row_with_fields(row, map, pl) ==
    [h \in DOMAIN row |->
        IF h \in Range(map)
        THEN PyStr(normalise_text(Get(pl, FieldOf(map, h), None)))
        ELSE row[h]]

\* for blank_header in FORCED_BLANK_HEADERS: if blank_header in row: ...
row_forced_blank(row) ==
    [h \in DOMAIN row |-> IF h \in FORCED_BLANK_HEADERS THEN PyStr("") ELSE row[h]]

build_row(header_order, payload) ==
    LET pl == payload_lower(payload)
        r1 == row_with_defaults(header_order, DEFAULT_VALUES)
        r2 == row_with_fields(r1, JSON_FIELD_MAP, pl)
        title == Get(r2, "Title", PyStr(""))
        source_author ==
            IF Truthy(Get(r2, "C:Author", None)) THEN r2["C:Author"]
            ELSE Get(pl, "author", None)
        r3 == [h \in DOMAIN r2 |->
                 CASE h = "C:Book Title" -> PyStr(truncate_for_excel(title, BOOK_FIELD_LIMIT))
                   [] h = "C:Author" -> PyStr(truncate_for_excel(source_author, BOOK_FIELD_LIMIT))
                   [] h = "Description" -> PyStr(build_description(pl))
                   [] OTHER -> r2[h]]
    IN  row_forced_blank(r3)

---------------------------------------------------------------------------
(* build_row of CL_append_input_arg_excel: the same tables, no truncation. *)

\* the truncating build_row in its place
build_row_CL_truncating(header_order, payload) == build_row(header_order, payload)

build_row_CL(header_order, payload) ==
    LET pl == payload_lower(payload)
        r1 == row_with_defaults(header_order, DEFAULT_VALUES)
        r2 == row_with_fields(r1, JSON_FIELD_MAP, pl)
        title == Get(r2, "Title", PyStr(""))
        r3 == [h \in DOMAIN r2 |->
                 CASE h = "C:Book Title" -> title
                   [] h = "Description" -> PyStr(build_description(pl))
                   [] OTHER -> r2[h]]
    IN  row_forced_blank(r3)

---------------------------------------------------------------------------
(* make_row of archives-all/json_to_ebay_excel. *)

\* the command line with no option given but those named: None is an option
\* that was not given
NoOverrides(in_place, output) ==
    [in_place |-> in_place, output |-> output, sheet |-> "Listings", title |-> None,
     start_price |-> None, quantity |-> None, condition_id |-> None,
     category_id |-> None, category_name |-> None, image_url |-> None,
     location |-> None, shipping_profile |-> None, return_profile |-> None,
     payment_profile |-> None]

\* every option given
AllOverrides(in_place, output) ==
    [NoOverrides(in_place, output) EXCEPT
        !.title = PyStr("Override Title"), !.start_price = PyStr("9.50"),
        !.quantity = PyInt(2), !.condition_id = PyStr("4000"),
        !.category_id = PyStr("267"), !.category_name = PyStr("/Books"),
        !.image_url = PyStr("https://img/1.jpg"), !.location = PyStr("Boston, MA"),
        !.shipping_profile = PyStr("Ship"), !.return_profile = PyStr("Return"),
        !.payment_profile = PyStr("Pay")]

\* every option given as the empty string, the quantity as zero
EmptyOverrides ==
    [NoOverrides(FALSE, None) EXCEPT
        !.title = PyStr(""), !.start_price = PyStr(""), !.quantity = PyInt(0),
        !.condition_id = PyStr(""), !.category_id = PyStr(""),
        !.category_name = PyStr(""), !.image_url = PyStr(""), !.location = PyStr(""),
        !.shipping_profile = PyStr(""), !.return_profile = PyStr(""),
        !.payment_profile = PyStr("")]

HEADERS == REQUIRED_HEADERS

DEFAULT_VALUES_archive ==
    ("Max dispatch time" :> PyStr("3")) @@
    ("Returns accepted option" :> PyStr("ReturnsAccepted")) @@
    ("Returns within option" :> PyStr("Days_30")) @@
    ("Refund option" :> PyStr("MoneyBack")) @@
    ("Return shipping cost paid by" :> PyStr("Buyer")) @@
    DEFAULT_VALUES

clean_text(value) ==
    IF value.k # "str" THEN (IF value = None THEN "" ELSE py_str(value))
    ELSE strip(apply_replacements(value.s))

build_description_archive(pl) ==
    LET blurb == clean_text(Get(pl, "blurb", None))
        condition == clean_text(Get(pl, "condition", None))
        details == clean_text(Get(pl, "details", None))
        s1 == IF blurb # "" THEN <<blurb>> ELSE <<>>
        s2 == IF condition # "" THEN <<"Condition Notes:\n" \o condition>> ELSE <<>>
        s3 == IF details # "" THEN <<"Collector Details:\n" \o details>> ELSE <<>>
    IN  join("\n\n", s1 \o s2 \o s3)

blank_columns ==
    { "Max dispatch time", "Returns accepted option", "Returns within option",
      "Refund option", "Return shipping cost paid by" }

\* the value_map of make_row after its assignments
make_value_map(payload, a) ==
    LET json_lower == payload_lower(payload)
        title == IF Truthy(a.title) THEN a.title
                 ELSE PyStr(clean_text(Get(json_lower, "title", None)))
        fields ==
            ("Title" :> title) @@
            ("C:Author" :> PyStr(clean_text(Get(json_lower, "author", None)))) @@
            ("C:Edition" :> PyStr(clean_text(Get(json_lower, "edition", None)))) @@
            ("C:Publication Year" :> PyStr(clean_text(Get(json_lower, "year", None)))) @@
            ("C:Publisher" :> PyStr(clean_text(Get(json_lower, "publisher", None)))) @@
            ("C:Book Title" :> title) @@
            ("Description" :> PyStr(build_description_archive(json_lower)))
        overrides ==
            (IF a.start_price # None THEN "Start price" :> a.start_price ELSE <<>>) @@
            (IF a.quantity # None THEN "Quantity" :> a.quantity ELSE <<>>) @@
            (IF a.condition_id # None THEN "Condition ID" :> a.condition_id ELSE <<>>) @@
            (IF Truthy(a.category_id) THEN "Category ID" :> a.category_id ELSE <<>>) @@
            (IF a.image_url # None THEN "Item photo URL" :> a.image_url ELSE <<>>) @@
            (IF a.location # None THEN "Location" :> a.location ELSE <<>>) @@
            (IF a.shipping_profile # None
                THEN "Shipping profile name" :> a.shipping_profile ELSE <<>>) @@
            (IF a.return_profile # None
                THEN "Return profile name" :> a.return_profile ELSE <<>>) @@
            (IF a.payment_profile # None
                THEN "Payment profile name" :> a.payment_profile ELSE <<>>)
    IN  overrides @@ fields @@ DEFAULT_VALUES_archive

\* the list make_row returns, one value per entry of HEADERS
make_row(payload, a) ==
    [idx0 \in DOMAIN HEADERS |->
        IF HEADERS[idx0] \in blank_columns THEN PyStr("")
        ELSE Get(make_value_map(payload, a), HEADERS[idx0], PyStr(""))]

---------------------------------------------------------------------------
(* prepare_row_values of json_to_ebay_excel. *)

DEFAULTS ==
    (H_ACTION :> PyStr("Add")) @@
    ("Category ID" :> PyStr("29223")) @@
    ("Category name" :> PyStr("/Books & Magazines/Books")) @@
    ("Start price" :> PyStr("")) @@
    ("Quantity" :> PyStr("1")) @@
    ("Condition ID" :> PyStr("3000")) @@
    ("Format" :> PyStr("FixedPrice")) @@
    ("Duration" :> PyStr("GTC")) @@
    ("Location" :> PyStr("Los Angeles, CA")) @@
    ("Max dispatch time" :> PyStr("3")) @@
    ("Returns accepted option" :> PyStr("ReturnsAccepted")) @@
    ("Returns within option" :> PyStr("Days_30")) @@
    ("Refund option" :> PyStr("MoneyBack")) @@
    ("Return shipping cost paid by" :> PyStr("Buyer")) @@
    ("Shipping profile name" :> PyStr("")) @@
    ("Return profile name" :> PyStr("")) @@
    ("Payment profile name" :> PyStr("")) @@
    ("C:Language" :> PyStr("English"))

\* the entries of JSON_TO_COLUMNS that name a column
JSON_TO_COLUMNS ==
    ("title" :> "Title") @@ ("author" :> "C:Author") @@ ("edition" :> "C:Edition") @@
    ("year" :> "C:Publication Year") @@ ("publisher" :> "C:Publisher")

PolicyKeys == {"Shipping profile name", "Return profile name", "Payment profile name"}

\* the replacement table of normalize_text, applied in the table's order
apply_replacements_J(t) ==
    LET t1 == replace(t, CH_FFFD, "'")
        t2 == replace(t1, CH_RSQUO, "'")
        t3 == replace(t2, CH_LDQUO, "\"")
        t4 == replace(t3, CH_RDQUO, "\"")
        t5 == replace(t4, CH_ENDASH, "-")
        t6 == replace(t5, CH_EMDASH, "-")
        t7 == replace(t6, CH_ELLIPSIS, "...")
        t8 == replace(t7, CH_BULLET, "-")
        t9 == replace(t8, CH_COPY, "(c)")
        t10 == replace(t9, CH_A_TILDE \o CH_COPY, CH_E_ACUTE)
        t11 == replace(t10, CH_A_TILDE \o CH_QUARTER, CH_U_UML)
        t12 == replace(t11, CH_A_TILDE \o CH_PILCROW, CH_O_UML)
        t13 == replace(t12, CH_A_TILDE, CH_A_GRAVE)
    IN  replace(t13, CH_FFFD, "'")

\* [ok, s]; not ok is the AttributeError of .replace on a value that is
\* truthy and not a string
normalize_text(value) ==
    IF ~Truthy(value) THEN [ok |-> TRUE, s |-> ""]
    ELSE IF value.k # "str" THEN [ok |-> FALSE, s |-> ""]
    ELSE [ok |-> TRUE, s |-> strip(apply_replacements_J(value.s))]

build_description_J(pl) ==
    LET blurb == normalize_text(Get(pl, "blurb", None))
        condition == normalize_text(Get(pl, "condition", None))
        details == normalize_text(Get(pl, "details", None))
        s1 == IF blurb.s # "" THEN <<blurb.s>> ELSE <<>>
        s2 == IF condition.s # "" THEN <<"Condition Notes:\n" \o condition.s>> ELSE <<>>
        s3 == IF details.s # "" THEN <<"Collector Details:\n" \o details.s>> ELSE <<>>
    IN  [ok |-> blurb.ok /\ condition.ok /\ details.ok,
         s |-> join("\n\n", s1 \o s2 \o s3)]

\* payload.get("condition"): the payload as loaded, keys not lowered
payload_get(payload, key) ==
    IF \E i \in DOMAIN payload : payload[i][1] = key
    THEN payload[CHOOSE i \in DOMAIN payload :
                    /\ payload[i][1] = key
                    /\ \A j \in DOMAIN payload : payload[j][1] = key => j <= i][2]
    ELSE None

\* values[h] when prepare_row_values returns: the last assignment the
\* function makes to values[h], found by going through its assignments from
\* the bottom up.  hs is the set of headers; baseline is a mapping, or <<>>
\* for None.
prepared_value(h, hs, payload, pl, a, baseline) ==
    LET condition_col == IF "Condition ID" \in hs THEN "Condition ID" ELSE "*ConditionID"
        category_col == IF "Category ID" \in hs THEN "Category ID" ELSE "*Category"
        image_col == IF "Item photo URL" \in hs THEN "Item photo URL" ELSE "PicURL"
        description_col == IF "*Description" \in hs THEN "*Description" ELSE "Description"
    IN  CASE h = "*ConditionID" /\ Truthy(payload_get(payload, "condition"))
               /\ "Condition ID" \notin hs ->
               (IF Truthy(a.condition_id) THEN a.condition_id ELSE PyStr(""))
          [] OTHER ->
        CASE h = "Payment profile name" /\ Truthy(a.payment_profile) -> a.payment_profile
          [] h = "Return profile name" /\ Truthy(a.return_profile) -> a.return_profile
          [] h = "Shipping profile name" /\ Truthy(a.shipping_profile) -> a.shipping_profile
          [] h = "Location" /\ Truthy(a.location) -> a.location
          [] h = image_col /\ Truthy(a.image_url) -> a.image_url
          [] h = "Category name" /\ Truthy(a.category_name) -> a.category_name
          [] h = category_col /\ a.category_id # None -> a.category_id
          [] h = condition_col /\ a.condition_id # None -> a.condition_id
          [] h = "Quantity" /\ a.quantity # None -> PyStr(py_str(a.quantity))
          [] h = "Start price" /\ a.start_price # None -> a.start_price
          [] OTHER ->
        IF h = description_col THEN PyStr(build_description_J(pl).s)
        ELSE IF h = "C:Book Title" /\ "Title" \in hs
             THEN PyStr(normalize_text(Get(pl, "title", None)).s)
        ELSE IF h \in Range(JSON_TO_COLUMNS)
             THEN PyStr(normalize_text(Get(pl, FieldOf(JSON_TO_COLUMNS, h), None)).s)
        ELSE IF h \in PolicyKeys /\ Truthy(Get(baseline, h, None)) THEN baseline[h]
        ELSE IF h \in DOMAIN DEFAULTS THEN DEFAULTS[h]
        ELSE PyStr("")

\* [ok, values]; not ok is an exception of normalize_text
prepare_row_values(headers, payload, pl, a, baseline) ==
    LET hs == Range(headers)
        description_col == IF "*Description" \in hs THEN "*Description" ELSE "Description"
    IN  [ok |-> /\ \A f \in DOMAIN JSON_TO_COLUMNS :
                      JSON_TO_COLUMNS[f] \in hs => normalize_text(Get(pl, f, None)).ok
                /\ description_col \in hs => build_description_J(pl).ok,
         values |-> [h \in hs |-> prepared_value(h, hs, payload, pl, a, baseline)]]

---------------------------------------------------------------------------
(* The worksheet and append_row of the batch appender. *)

\* max_row taken for the row before the last
max_row_before_last(sh) == IF Len(sh) = 0 THEN 1 ELSE Len(sh) - 1

max_row(sh) == IF Len(sh) = 0 THEN 1 ELSE Len(sh)

\* sheet.cell(row, column).value
cell_value(sh, r, c) ==
    IF r \in DOMAIN sh /\ c \in DOMAIN sh[r] THEN sh[r][c] ELSE None

Max(a, b) == IF a >= b THEN a ELSE b
Width(sh) == IF Len(sh) = 0 THEN 1 ELSE Len(sh[1])
BlankRow(w) == [c \in 1..w |-> None]

\* the sheet after writing cells[c] at (r, c) for every c given in written;
\* rows between the old max_row and r come into being as rows of None
put_row(sh, r, cells, written) ==
    LET w == Max(Width(sh), Len(cells))
    IN  [i \in 1..Max(Len(sh), r) |->
            IF i = r
            THEN [c \in 1..w |-> IF c \in written THEN cells[c] ELSE cell_value(sh, r, c)]
            ELSE IF i \in DOMAIN sh THEN sh[i] ELSE BlankRow(w)]

read_headers(sh) ==
    [c \in 1..Width(sh) |->
        IF cell_value(sh, 1, c).k = "str" THEN cell_value(sh, 1, c).s ELSE ""]

\* the while loop of find_insert_row, from row r downwards
RECURSIVE scan_title(_, _, _)
scan_title(sh, title_col, r) ==
    IF ~IsBlank(cell_value(sh, r, title_col)) THEN scan_title(sh, title_col, r + 1) ELSE r

\* find_insert_row scanning from the first row below the header
find_insert_row_below_header(sh, title_col) == scan_title(sh, title_col, 2)

\* find_insert_row scanning from the last row of the sheet
find_insert_row_from_max_row(sh, title_col) == scan_title(sh, title_col, max_row(sh))

find_insert_row(sh, title_col) == scan_title(sh, title_col, max_row(sh) + 1)

\* append_row without the fallback to the raw value
coerce_cell_no_fallback(header, value) ==
    IF IsBlank(value) THEN None
    ELSE IF header = "Start price" THEN py_float(value).v
    ELSE IF header = "Quantity" THEN py_int(value).v
    ELSE value

\* append_row storing the empty string as it is
coerce_cell_keeps_empty_string(header, value) ==
    IF value = None THEN None
    ELSE IF value = PyStr("") THEN value
    ELSE IF header = "Start price" /\ py_float(value).ok THEN py_float(value).v
    ELSE IF header = "Quantity" /\ py_int(value).ok THEN py_int(value).v
    ELSE value

\* append_row testing the Quantity column without regard to case
coerce_cell_quantity_any_case(header, value) ==
    IF IsBlank(value) THEN None
    ELSE IF header = "Start price" /\ py_float(value).ok THEN py_float(value).v
    ELSE IF lower(header) = "quantity" /\ py_int(value).ok THEN py_int(value).v
    ELSE value

\* the value append_row stores in the cell of column `header`
coerce_cell(header, value) ==
    IF IsBlank(value) THEN None
    ELSE IF header = "Start price" /\ py_float(value).ok THEN py_float(value).v
    ELSE IF header = "Quantity" /\ py_int(value).ok THEN py_int(value).v
    ELSE value

\* [ok, sheet, target_row]; not ok is the ValueError of a header without Title
append_row(sh, headers, row_values) ==
    IF "Title" \notin Range(headers)
    THEN [ok |-> FALSE, sheet |-> sh, target_row |-> 0]
    ELSE LET title_col_index == IndexOf(headers, "Title")
             target_row == find_insert_row(sh, title_col_index)
             cells == [c \in DOMAIN headers |->
                          coerce_cell(headers[c], Get(row_values, headers[c], PyStr("")))]
         IN  [ok |-> TRUE,
              sheet |-> put_row(sh, target_row, cells, DOMAIN headers),
              target_row |-> target_row]

---------------------------------------------------------------------------
(* Values of the variables a specification does not use. *)

NoRet == [ok |-> TRUE, target_row |-> 0]
NoOut == [fn |-> "none", s |-> ""]
NoArgs == [in_place |-> FALSE]
NoDisk == <<>>
\* no run of process_queue has been completed and followed by another
NoRun == [done |-> FALSE, interrupted |-> "no", appended |-> FALSE, saved |-> FALSE, all_moved |-> FALSE, inputs |-> <<>>, rows |-> <<>>]

IdleSheet == sheet = <<>> /\ ret = NoRet /\ calls = 0
IdleFiles == disk = NoDisk /\ queue = <<>> /\ moved = {} /\ json_files = <<>>
             /\ processed = <<>> /\ idx = 0 /\ mv = 0 /\ saves = 0 /\ log = <<>>
             /\ args = NoArgs /\ first_run = NoRun
IdleText == text = "" /\ limit = 0 /\ out = NoOut

SheetVars == <<sheet, ret, calls>>
FileVars == <<disk, queue, moved, json_files, processed, idx, mv, saves, log, args,
             first_run>>
TextVars == <<text, limit, out>>

---------------------------------------------------------------------------
(* SpecTruncate: the truncation functions on drawn texts and limits. *)

\* a letter, a blank, and a character the replacement table lengthens
TextAlphabet == {"a", " ", CH_ELLIPSIS}

RECURSIVE Texts(_)
Texts(n) ==
    IF n = 0 THEN {""}
    ELSE Texts(n - 1) \cup {t \o c : t \in Texts(n - 1), c \in TextAlphabet}

InitTruncate ==
    /\ pc = "call"
    /\ text \in Texts(MaxLen)
    /\ limit \in 0..MaxLimit
    /\ out = NoOut
    /\ IdleSheet /\ IdleFiles

\* truncate(text, limit) of batch_generate_ebay_workbook / generate_ebay_upload_excel
CallTruncate ==
    /\ pc = "call"
    /\ out' = [fn |-> "truncate", s |-> truncate(text, limit)]
    /\ pc' = "returned"
    /\ UNCHANGED <<text, limit, SheetVars, FileVars>>

\* truncate_for_excel(text, limit) of append_json_queue_to_excel
CallTruncateForExcel ==
    /\ pc = "call"
    /\ out' = [fn |-> "truncate_for_excel", s |-> truncate_for_excel(PyStr(text), limit)]
    /\ pc' = "returned"
    /\ UNCHANGED <<text, limit, SheetVars, FileVars>>

\* truncate(truncate(text, limit), limit)
CallTruncateAgain ==
    /\ pc = "returned"
    /\ out.fn = "truncate"
    /\ out' = [fn |-> "truncate", s |-> truncate(out.s, limit)]
    /\ pc' = "again"
    /\ UNCHANGED <<text, limit, SheetVars, FileVars>>

\* truncate_for_excel(truncate_for_excel(text, limit), limit)
CallTruncateForExcelAgain ==
    /\ pc = "returned"
    /\ out.fn = "truncate_for_excel"
    /\ out' = [fn |-> "truncate_for_excel", s |-> truncate_for_excel(PyStr(out.s), limit)]
    /\ pc' = "again"
    /\ UNCHANGED <<text, limit, SheetVars, FileVars>>

NextTruncate ==
    \/ CallTruncate
    \/ CallTruncateForExcel
    \/ CallTruncateAgain
    \/ CallTruncateForExcelAgain

SpecTruncate == InitTruncate /\ [][NextTruncate]_vars

---------------------------------------------------------------------------
(* Properties of the truncation functions (SpecTruncate), continued. *)

\* the text the returned call cut: truncate takes the text as it is,
\* truncate_for_excel normalises it first
CutText == IF out.fn = "truncate" THEN text ELSE normalise_text(PyStr(text))

\* s is t[:n] without its trailing whitespace, followed by "..."
IsStrippedPrefixWithEllipsis(s, t, n) ==
    \E k \in 0..n :
       /\ s = SubSeq(t, 1, k) \o "..."
       /\ k = 0 \/ CharAt(t, k) \notin Whitespace
       /\ \A j \in (k + 1)..n : CharAt(t, j) \in Whitespace

\* C11: a text of length at most limit is returned unchanged; a longer text
\* is returned as text[:limit] without an ellipsis when limit <= 3, and as
\* text[:limit-3] without its trailing whitespace followed by "..." when
\* limit > 3.
C11_TruncationResultForm ==
    pc = "returned" =>
       /\ Len(CutText) <= limit => out.s = CutText
       /\ (Len(CutText) > limit /\ limit <= 3) => out.s = SubSeq(CutText, 1, limit)
       /\ (Len(CutText) > limit /\ limit > 3) =>
             IsStrippedPrefixWithEllipsis(out.s, CutText, limit - 3)

\* truncate cut a text whose kept prefix ended in whitespace, and the
\* whitespace is gone
C11_Witness ==
    /\ pc = "returned"
    /\ out.fn = "truncate"
    /\ limit > 3
    /\ Len(text) > limit
    /\ CharAt(text, limit - 3) = " "
    /\ EndsWith(out.s, "...")
    /\ ~EndsWith(out.s, " ...")
    /\ Len(out.s) < limit

\* C12: applying the truncation to its own result with the same limit gives
\* that result again, for truncate and for truncate_for_excel, at every limit.
C12_TruncationIdempotent ==
    [][(pc = "returned" /\ pc' = "again") => out'.s = out.s]_vars

\* C12 for truncate alone, which does not normalise its argument.
C12_TruncateIdempotent ==
    [][(pc = "returned" /\ pc' = "again" /\ out.fn = "truncate") => out'.s = out.s]_vars

---------------------------------------------------------------------------
(* SpecAppend: append_row of the batch appender called on drawn worksheets *)
(* with drawn row mappings.                                                *)

\* the cells of a header row
header_cells(headers) == [c \in DOMAIN headers |-> PyStr(headers[c])]

\* a header row without the Title column
HeadersNoTitle == SelectSeq(REQUIRED_HEADERS, LAMBDA h : h # "Title")

\* the cells append_row stores for a row mapping
written_cells(headers, row_values) ==
    [c \in DOMAIN headers |->
        coerce_cell(headers[c], Get(row_values, headers[c], PyStr("")))]

\* Data rows a worksheet can hold: a listing with a title, a listing written
\* from a payload without a title (its Title cell is None, its other cells
\* are filled), and a row whose cells were cleared but not deleted.
TitledPayload == << <<"title", PyStr("Old Book")>>, <<"blurb", PyStr("old")>> >>
UntitledPayload == << <<"raw_text", PyStr("not json")>> >>

DataRows(headers) ==
    { written_cells(headers, build_row(headers, TitledPayload)),
      written_cells(headers, build_row(headers, UntitledPayload)),
      BlankRow(Len(headers)) }

SheetsWith(headers) ==
    { <<header_cells(headers)>> \o rows :
        rows \in UNION { [1..n -> DataRows(headers)] : n \in 0..MaxRows } }

InitialSheets == SheetsWith(REQUIRED_HEADERS) \cup SheetsWith(HeadersNoTitle)

\* Row mappings handed to append_row: built rows, and mappings that hold only
\* some columns.
RowInputs(headers) ==
    { build_row(headers, p) : p \in {TitledPayload, UntitledPayload, <<>>} }
    \cup
    { ("Title" :> t) @@ ("Start price" :> sp) @@ ("Quantity" :> q) :
        t \in {PyStr("New Book"), PyStr(""), None},
        sp \in {PyStr("5.00"), PyStr("call for price")},
        q \in {PyInt(1), PyStr("two")} }
    \cup
    { ("Title" :> PyStr("New Book")) @@ ("Start price" :> sp) :
        sp \in {PyInt(5), PyStr(" -7.5 ")} }

InitAppend ==
    /\ pc = "append"
    /\ sheet \in InitialSheets
    /\ ret = NoRet
    /\ calls = 0
    /\ IdleFiles /\ IdleText

CallAppendRow ==
    /\ pc = "append"
    /\ calls < MaxCalls
    /\ \E row_values \in RowInputs(read_headers(sheet)) :
          LET r == append_row(sheet, read_headers(sheet), row_values)
          IN  /\ sheet' = r.sheet
              /\ ret' = [ok |-> r.ok, target_row |-> r.target_row,
                         row_values |-> row_values]
    /\ calls' = calls + 1
    /\ UNCHANGED <<pc, FileVars, TextVars>>

NextAppend == CallAppendRow

SpecAppend == InitAppend /\ [][NextAppend]_vars

---------------------------------------------------------------------------
(* Properties of the truncation functions (SpecTruncate). *)

\* C10: for every text and every limit >= 0, the result of truncate(text,
\* limit) and of truncate_for_excel(text, limit) has length at most limit.
C10_TruncationLengthBound == pc = "returned" => Len(out.s) <= limit

\* a text longer than a limit above 3 was cut and given its ellipsis
C10_Witness ==
    /\ pc = "returned"
    /\ out.fn = "truncate_for_excel"
    /\ limit > 3
    /\ Len(normalise_text(PyStr(text))) > limit
    /\ EndsWith(out.s, "...")
    /\ Len(out.s) = limit

---------------------------------------------------------------------------
(* Properties of append_row of the batch appender (SpecAppend). *)

TitleCol(sh) == IndexOf(read_headers(sh), "Title")
Occupied(sh, r) == ~IsBlank(cell_value(sh, r, TitleCol(sh)))
Cleared(sh, r) == \A c \in 1..Width(sh) : cell_value(sh, r, c) = None
HasData(sh, r) == \E c \in 1..Width(sh) : ~IsBlank(cell_value(sh, r, c))

\* header in row 1, then N rows with a non-empty Title, then only rows whose
\* cells exist and are all empty
OccupiedThenCleared(sh, N) ==
    /\ "Title" \in Range(read_headers(sh))
    /\ Len(sh) >= N + 1
    /\ \A r \in 2..(N + 1) : Occupied(sh, r)
    /\ \A r \in (N + 2)..Len(sh) : Cleared(sh, r)

\* this step is a call of append_row that returned a target row
AppendReturned == calls' = calls + 1 /\ ret'.ok

\* C1: on a sheet with N occupied rows directly below the header row and zero
\* or more cleared rows below them, append_row writes the new row at index
\* header_row + N + 1 and overwrites none of the N occupied rows.
C1_OccupancyScan ==
    [][\A N \in 0..Len(sheet) :
          (AppendReturned /\ OccupiedThenCleared(sheet, N)) =>
              /\ ret'.target_row = 1 + N + 1
              /\ \A r \in 2..(N + 1) : sheet'[r] = sheet[r]]_vars

\* What the code does on those sheets: the new row goes below every row that
\* holds a cell, cleared rows included, and no occupied row is overwritten.
C1_CodeBehaviour ==
    [][\A N \in 0..Len(sheet) :
          (AppendReturned /\ OccupiedThenCleared(sheet, N)) =>
              /\ ret'.target_row = Len(sheet) + 1
              /\ \A r \in 2..(N + 1) : sheet'[r] = sheet[r]]_vars

\* C2: one call of append_row changes cells in exactly one row, the returned
\* target row; that row had no non-empty cell before the call; every cell of
\* every other row, the header included, is unchanged.
C2_AppendFrame ==
    [][AppendReturned =>
          LET t == ret'.target_row
              rows == 1..Max(Len(sheet), Len(sheet'))
              changed == {r \in rows :
                            \/ (r \in DOMAIN sheet) # (r \in DOMAIN sheet')
                            \/ \E c \in 1..Width(sheet') :
                                  cell_value(sheet', r, c) # cell_value(sheet, r, c)}
          IN  /\ changed = {t}
              /\ ~HasData(sheet, t)]_vars

\* a second call has appended below a row whose Title cell is empty while
\* its other cells are filled, and below a cleared row
C2_Witness ==
    /\ calls = 2
    /\ ret.ok
    /\ ret.target_row = Len(sheet)
    /\ HasData(sheet, ret.target_row)
    /\ \E r \in 2..(Len(sheet) - 1) : ~Occupied(sheet, r) /\ HasData(sheet, r)
    /\ \E r \in 2..(Len(sheet) - 1) : Cleared(sheet, r)

---------------------------------------------------------------------------
(* Properties of append_row (SpecAppend), continued. *)

\* C14: append_row writes the Start price as a number when the value
\* converts ("5.00" as 5.0), as the value itself when it does not ("call for
\* price"), and as an empty cell when the value is empty; the call returns
\* its row, and every other column of the row is written.
C14_StartPriceCoercion ==
    [][(calls' = calls + 1 /\ "Title" \in Range(read_headers(sheet))) =>
          LET headers == read_headers(sheet)
              rv == ret'.row_values
              t == ret'.target_row
              v == Get(rv, "Start price", PyStr(""))
              cell == sheet'[t][IndexOf(headers, "Start price")]
          IN  /\ ret'.ok
              /\ v = PyStr("5.00") => cell = PyFloat(5, 0)
              /\ v = PyStr(" -7.5 ") => cell = PyFloat(-75, 1)
              /\ v = PyInt(5) => cell = PyFloat(5, 0)
              /\ v = PyStr("call for price") => cell = v
              /\ IsBlank(v) => cell = None
              /\ cell.k \in {"float", "str", "none"}
              /\ cell.k = "str" => cell = v
              /\ \A c \in DOMAIN headers :
                    headers[c] \notin {"Start price", "Quantity"} =>
                       sheet'[t][c] = IF IsBlank(Get(rv, headers[c], PyStr("")))
                                      THEN None ELSE rv[headers[c]]]_vars

\* a row was appended whose Start price cell holds the text that does not
\* convert, next to its Title and its Quantity
C14_Witness ==
    /\ calls > 0
    /\ ret.ok
    /\ ret.row_values["Start price"] = PyStr("call for price")
    /\ "Title" \in Range(read_headers(sheet))
    /\ sheet[ret.target_row][IndexOf(read_headers(sheet), "Start price")] = PyStr("call for price")
    /\ sheet[ret.target_row][IndexOf(read_headers(sheet), "Title")] = PyStr("New Book")
    /\ sheet[ret.target_row][IndexOf(read_headers(sheet), "Quantity")] = PyInt(1)

---------------------------------------------------------------------------
(* SpecQueue: process_queue of the batch appender.                         *)
(*                                                                         *)
(* A workbook file is [exists, sheetnames, rows]: rows is the worksheet    *)
(* the scripts write to.  A queued file is [name, kind, payload]: kind     *)
(* "object" parses as a JSON object, "array" parses as JSON that is not an *)
(* object, "malformed" does not parse.                                     *)

WORKBOOK_PATH == "ebay-auto-listings.xlsx"

AbsentFile == [exists |-> FALSE, sheetnames |-> {}, rows |-> <<>>]
Workbook(names, rows) == [exists |-> TRUE, sheetnames |-> names, rows |-> rows]

\* a header row without a required column other than Title
HeadersNoQuantity == SelectSeq(REQUIRED_HEADERS, LAMBDA h : h # "Quantity")

NewPayload == << <<"Title", PyStr("New Book")>>, <<"author", PyStr("A. Writer")>> >>

QueuedContents ==
    { [kind |-> "object", payload |-> NewPayload],
      [kind |-> "object", payload |-> UntitledPayload],
      [kind |-> "array", payload |-> <<>>],
      [kind |-> "malformed", payload |-> <<>>] }

Queues ==
    UNION { { [i \in 1..n |-> [name |-> i, kind |-> f[i].kind, payload |-> f[i].payload]] :
                f \in [1..n -> QueuedContents] } : n \in 0..MaxFiles }

QueueWorkbooks ==
    { AbsentFile, Workbook({"INFO"}, <<>>) }
    \cup { Workbook({"Listings", "INFO"}, rows) :
             rows \in SheetsWith(REQUIRED_HEADERS) \cup SheetsWith(HeadersNoTitle)
                      \cup SheetsWith(HeadersNoQuantity) }

\* load_json: [ok, payload]; not ok is the exception the loop catches
load_json_any_json(file) ==
    [ok |-> file.kind \in {"object", "array"}, payload |-> file.payload]

load_json(file) == [ok |-> file.kind = "object", payload |-> file.payload]

\* missing = [header for header in REQUIRED_HEADERS if header not in headers]
missing_first_only(headers) == {REQUIRED_HEADERS[1]} \ Range(headers)

missing(headers) == Range(REQUIRED_HEADERS) \ Range(headers)

\* the paths the move loop goes through
paths_to_move_all(proc, files) == [i \in DOMAIN files |-> files[i].name]

paths_to_move(proc, files) == proc

Line(msg, name) == [msg |-> msg, name |-> name]

InitQueue ==
    /\ pc = "start"
    /\ disk \in {(WORKBOOK_PATH :> w) : w \in QueueWorkbooks}
    /\ queue \in Queues
    /\ moved = {} /\ json_files = <<>> /\ processed = <<>>
    /\ idx = 0 /\ mv = 0 /\ saves = 0 /\ log = <<>> /\ args = NoArgs
    /\ first_run = NoRun
    /\ IdleSheet /\ IdleText

QueueLocals == <<json_files, processed, idx, mv>>

\* json_files = collect_queue(); if not json_files: print; return
NoJsonFiles ==
    /\ pc = "start"
    /\ queue = <<>>
    /\ log' = Append(log, Line("No JSON files found", 0))
    /\ pc' = "done"
    /\ UNCHANGED <<SheetVars, disk, queue, moved, QueueLocals, saves, args, first_run, TextVars>>

\* if not WORKBOOK_PATH.exists(): raise FileNotFoundError
WorkbookNotFound ==
    /\ pc = "start"
    /\ queue # <<>>
    /\ ~disk[WORKBOOK_PATH].exists
    /\ json_files' = queue
    /\ pc' = "fatal"
    /\ UNCHANGED <<SheetVars, disk, queue, moved, processed, idx, mv, saves, log, args, first_run, TextVars>>

\* if "Listings" not in wb.sheetnames: raise ValueError
ListingsSheetMissing ==
    /\ pc = "start"
    /\ queue # <<>>
    /\ disk[WORKBOOK_PATH].exists
    /\ "Listings" \notin disk[WORKBOOK_PATH].sheetnames
    /\ json_files' = queue
    /\ pc' = "fatal"
    /\ UNCHANGED <<SheetVars, disk, queue, moved, processed, idx, mv, saves, log, args, first_run, TextVars>>

\* if missing: raise ValueError
ColumnsMissing ==
    /\ pc = "start"
    /\ queue # <<>>
    /\ disk[WORKBOOK_PATH].exists
    /\ "Listings" \in disk[WORKBOOK_PATH].sheetnames
    /\ missing(read_headers(disk[WORKBOOK_PATH].rows)) # {}
    /\ json_files' = queue
    /\ sheet' = disk[WORKBOOK_PATH].rows
    /\ pc' = "fatal"
    /\ UNCHANGED <<ret, calls, disk, queue, moved, processed, idx, mv, saves, log, args, first_run, TextVars>>

\* the workbook is loaded and its header row holds every required column
LoadWorkbook ==
    /\ pc = "start"
    /\ queue # <<>>
    /\ disk[WORKBOOK_PATH].exists
    /\ "Listings" \in disk[WORKBOOK_PATH].sheetnames
    /\ missing(read_headers(disk[WORKBOOK_PATH].rows)) = {}
    /\ json_files' = queue
    /\ sheet' = disk[WORKBOOK_PATH].rows
    /\ processed' = <<>>
    /\ idx' = 1
    /\ pc' = "loop"
    /\ UNCHANGED <<ret, calls, disk, queue, moved, mv, saves, log, args, first_run, TextVars>>

\* the skipped input is moved out of the queue directory at once
SkipInput_moves_at_once ==
    /\ pc = "loop"
    /\ idx <= Len(json_files)
    /\ ~load_json(json_files[idx]).ok
    /\ log' = Append(log, Line("Skipping", json_files[idx].name))
    /\ queue' = SelectSeq(queue, LAMBDA f : f.name # json_files[idx].name)
    /\ moved' = moved \cup {json_files[idx].name}
    /\ idx' = idx + 1
    /\ UNCHANGED <<pc, SheetVars, disk, json_files, processed, mv, saves, args, first_run, TextVars>>

\* except Exception: print("Skipping ..."); continue
SkipInput ==
    /\ pc = "loop"
    /\ idx <= Len(json_files)
    /\ ~load_json(json_files[idx]).ok
    /\ log' = Append(log, Line("Skipping", json_files[idx].name))
    /\ idx' = idx + 1
    /\ UNCHANGED <<pc, SheetVars, disk, queue, moved, json_files, processed, mv, saves, args, first_run, TextVars>>

\* row_data = build_row(...); append_row(...); processed.append(json_path)
AppendInput ==
    /\ pc = "loop"
    /\ idx <= Len(json_files)
    /\ load_json(json_files[idx]).ok
    /\ LET headers == read_headers(sheet)
           row_data == build_row(headers, load_json(json_files[idx]).payload)
           r == append_row(sheet, headers, row_data)
       IN  IF r.ok
           THEN /\ sheet' = r.sheet
                /\ ret' = [ok |-> TRUE, target_row |-> r.target_row]
                /\ calls' = calls + 1
                /\ processed' = Append(processed, json_files[idx].name)
                /\ log' = Append(log, Line("Appended", json_files[idx].name))
                /\ idx' = idx + 1
                /\ pc' = pc
           ELSE \* the ValueError of append_row leaves process_queue
                /\ ret' = [ok |-> FALSE, target_row |-> 0]
                /\ pc' = "fatal"
                /\ UNCHANGED <<sheet, calls, processed, log, idx>>
    /\ UNCHANGED <<disk, queue, moved, json_files, mv, saves, args, first_run, TextVars>>

\* else: print("No listings appended.")
NoListingsAppended ==
    /\ pc = "loop"
    /\ idx > Len(json_files)
    /\ processed = <<>>
    /\ log' = Append(log, Line("No listings appended", 0))
    /\ pc' = "done"
    /\ UNCHANGED <<SheetVars, disk, queue, moved, QueueLocals, saves, args, first_run, TextVars>>

\* if processed: wb.save(WORKBOOK_PATH) -- the call is entered.  The save
\* writes onto the workbook file itself (no temporary file is written and
\* renamed), so until the call returns the file holds either what it held
\* (nothing written yet) or an incomplete archive without readable rows.
BeginSave ==
    /\ pc = "loop"
    /\ idx > Len(json_files)
    /\ processed # <<>>
    /\ \E partial \in {disk[WORKBOOK_PATH].rows, <<>>} :
          disk' = [disk EXCEPT ![WORKBOOK_PATH].rows = partial]
    /\ pc' = "save"
    /\ UNCHANGED <<SheetVars, queue, moved, QueueLocals, saves, log, args, first_run, TextVars>>

\* wb.save(WORKBOOK_PATH) returns; PROCESSED_DIR.mkdir(...)
SaveWorkbook ==
    /\ pc = "save"
    /\ disk' = [disk EXCEPT ![WORKBOOK_PATH].rows = sheet]
    /\ saves' = saves + 1
    /\ mv' = 1
    /\ pc' = "move"
    /\ UNCHANGED <<SheetVars, queue, moved, json_files, processed, idx, log, args, first_run, TextVars>>

\* shutil.move replaced by a copy: the input stays in the queue directory
MoveInput_copies ==
    /\ pc = "move"
    /\ mv <= Len(paths_to_move(processed, json_files))
    /\ moved' = moved \cup {paths_to_move(processed, json_files)[mv]}
    /\ mv' = mv + 1
    /\ UNCHANGED <<pc, SheetVars, disk, queue, json_files, processed, idx, saves, log, args, first_run, TextVars>>

\* shutil.move(str(path), destination)
MoveInput ==
    /\ pc = "move"
    /\ mv <= Len(paths_to_move(processed, json_files))
    /\ LET name == paths_to_move(processed, json_files)[mv]
       IN  /\ queue' = SelectSeq(queue, LAMBDA f : f.name # name)
           /\ moved' = moved \cup {name}
    /\ mv' = mv + 1
    /\ UNCHANGED <<pc, SheetVars, disk, json_files, processed, idx, saves, log, args, first_run, TextVars>>

\* except Exception: print("Warning: failed to move ...")
MoveFails ==
    /\ pc = "move"
    /\ mv <= Len(paths_to_move(processed, json_files))
    /\ log' = Append(log, Line("Warning: failed to move",
                               paths_to_move(processed, json_files)[mv]))
    /\ mv' = mv + 1
    /\ UNCHANGED <<pc, SheetVars, disk, queue, moved, json_files, processed, idx, saves, args, first_run, TextVars>>

\* print("Appended N listing(s) to ...")
ReportAppended ==
    /\ pc = "move"
    /\ mv > Len(paths_to_move(processed, json_files))
    /\ log' = Append(log, Line("Appended listing(s)", Len(processed)))
    /\ pc' = "done"
    /\ UNCHANGED <<SheetVars, disk, queue, moved, QueueLocals, saves, args, first_run, TextVars>>

NextQueue ==
    \/ NoJsonFiles \/ WorkbookNotFound \/ ListingsSheetMissing \/ ColumnsMissing
    \/ LoadWorkbook \/ SkipInput \/ AppendInput \/ NoListingsAppended
    \/ BeginSave \/ SaveWorkbook \/ MoveInput \/ MoveFails \/ ReportAppended

SpecQueue == InitQueue /\ [][NextQueue]_vars

\* the row process_queue wrote for the i-th appended input
RowOf(i) == Len(sheet) - Len(processed) + i

TitleCell(r) == cell_value(sheet, r, IndexOf(read_headers(sheet), "Title"))

\* the object read from the i-th appended input
PayloadOf(i) == (CHOOSE f \in Range(json_files) : f.name = processed[i]).payload

\* C29: for every input that process_queue appends and moves to processed/,
\* the row written for it has a non-empty Title cell, also for a JSON object
\* without a title field such as the {"raw_text": ...} fallback object.
C29_AppendedRowsOccupied ==
    pc = "done" =>
        \A i \in DOMAIN processed :
            processed[i] \in moved => ~IsBlank(TitleCell(RowOf(i)))

\* what the code does: the Title cell of the row of an appended input holds
\* what build_row makes of the input's title and is empty when the object
\* has no title; the input is appended, counted and moved all the same.
C29_CodeBehaviour ==
    pc = "done" =>
        \A i \in DOMAIN processed :
            /\ TitleCell(RowOf(i)) =
                  coerce_cell("Title", Get(build_row(read_headers(sheet), PayloadOf(i)),
                                           "Title", PyStr("")))
            /\ PayloadOf(i) = UntitledPayload => IsBlank(TitleCell(RowOf(i)))
            /\ PayloadOf(i) = NewPayload => ~IsBlank(TitleCell(RowOf(i)))

\* C27: within one run of process_queue the target rows of successive
\* append_row calls are strictly increasing and a call leaves every row the
\* sheet already has as it is, so a row written earlier in the batch is never
\* overwritten by a later input, also when it was written with an empty Title.
C27_TargetRowsIncrease ==
    [][(calls' = calls + 1) =>
          /\ ret'.target_row > ret.target_row
          /\ ret'.target_row > Len(sheet)
          /\ \A r \in DOMAIN sheet : sheet'[r] = sheet[r]]_vars

\* two inputs were appended in one run and the row of the first has an empty
\* Title cell
C27_Witness ==
    /\ calls = 2
    /\ ret.ok
    /\ IsBlank(cell_value(sheet, ret.target_row - 1, IndexOf(read_headers(sheet), "Title")))
    /\ ~IsBlank(cell_value(sheet, ret.target_row, IndexOf(read_headers(sheet), "Title")))

\* a new process: its locals and its output start afresh, the workbook file
\* and the queue directory are as the process before left them
NewProcess ==
    /\ pc' = "start"
    /\ sheet' = <<>> /\ ret' = NoRet /\ calls' = 0
    /\ json_files' = <<>> /\ processed' = <<>> /\ idx' = 0 /\ mv' = 0
    /\ saves' = 0 /\ log' = <<>>
    /\ UNCHANGED <<disk, queue, moved, args, TextVars>>

\* if __name__ == "__main__": process_queue() -- the script is started a
\* second time after a run that returned: a new process, whose locals and
\* output start afresh, over the workbook file and the queue directory as
\* the first run left them.  first_run keeps what the first run did.
RunAgain ==
    /\ pc = "done"
    /\ ~first_run.done
    /\ first_run' = [done |-> TRUE,
                     interrupted |-> "no",
                     appended |-> calls > 0,
                     saved |-> saves = 1,
                     all_moved |-> Range(processed) \subseteq moved,
                     inputs |-> json_files,
                     rows |-> disk[WORKBOOK_PATH].rows]
    /\ NewProcess

NextRerun == NextQueue \/ RunAgain

SpecRerun == InitQueue /\ [][NextRerun]_vars

\* the process is killed (KeyboardInterrupt, SIGKILL, power loss) while
\* process_queue has not returned from wb.save, and the script is started
\* again.  interrupted keeps where the run was, appended whether it had
\* appended rows in memory, inputs the files it had collected.  (Before the
\* workbook is loaded the run has done nothing a restart could tell.)
Interrupt ==
    /\ pc \in {"loop", "save"}
    /\ ~first_run.done
    /\ first_run' = [done |-> TRUE,
                     interrupted |-> pc,
                     appended |-> calls > 0,
                     saved |-> FALSE,
                     all_moved |-> FALSE,
                     inputs |-> json_files,
                     rows |-> disk[WORKBOOK_PATH].rows]
    /\ NewProcess

NextInterrupt == NextQueue \/ Interrupt

SpecInterrupt == InitQueue /\ [][NextInterrupt]_vars

---------------------------------------------------------------------------
(* Properties of process_queue (SpecQueue). *)

ObjectInputs(files) == {i \in DOMAIN files : files[i].kind = "object"}
OtherInputs(files) == DOMAIN files \ ObjectInputs(files)
Printed(msg) == {i \in DOMAIN log : log[i].msg = msg}
PrintedFor(msg, name) == \E i \in DOMAIN log : log[i] = Line(msg, name)
QueueNames == {queue[i].name : i \in DOMAIN queue}

\* C5: the number of rows appended equals the number of inputs that parse as
\* a JSON object, every other input is skipped without stopping the loop, and
\* the workbook is saved exactly once, after the last input, when at least
\* one row was appended, and not at all when none was.
C5_BatchOutcome ==
    /\ pc = "loop" =>
          \* no save while inputs are being handled; the rows are in memory
          /\ saves = 0
          /\ Len(sheet) = Len(disk[WORKBOOK_PATH].rows) + calls
          /\ calls = Cardinality(ObjectInputs(SubSeq(json_files, 1, idx - 1)))
          /\ Cardinality(Printed("Skipping")) =
                Cardinality(OtherInputs(SubSeq(json_files, 1, idx - 1)))
    /\ pc \in {"move", "done"} =>
          /\ calls = Cardinality(ObjectInputs(json_files))
          /\ Cardinality(Printed("Skipping")) = Cardinality(OtherInputs(json_files))
          /\ saves = IF calls > 0 THEN 1 ELSE 0
          /\ saves = 1 => disk[WORKBOOK_PATH].rows = sheet

\* a batch with one object and one other input has ended: one row, one
\* reported skip, one save
C5_Witness ==
    /\ pc = "done"
    /\ Len(json_files) = 2
    /\ Cardinality(OtherInputs(json_files)) = 1
    /\ calls = 1
    /\ Cardinality(Printed("Skipping")) = 1
    /\ saves = 1

\* C6: no input is moved into processed/ before the save has completed, only
\* inputs whose row was appended in this run are moved (skipped inputs stay
\* in the queue directory), and a failed move neither undoes the save nor
\* prevents the move of the remaining inputs.
C6_CommitThenMove ==
    /\ moved # {} => saves = 1 /\ disk[WORKBOOK_PATH].rows = sheet
    /\ moved \subseteq Range(processed)
    /\ \A i \in OtherInputs(json_files) : json_files[i].name \in QueueNames
    /\ \A i \in DOMAIN json_files :
          (json_files[i].name \in moved) # (json_files[i].name \in QueueNames)
    /\ (pc = "done" /\ processed # <<>>) =>
          /\ saves = 1
          /\ disk[WORKBOOK_PATH].rows = sheet
          /\ \A i \in DOMAIN processed :
                \/ processed[i] \in moved
                \/ PrintedFor("Warning: failed to move", processed[i])

\* the move of the first appended input failed, the second was still moved,
\* and the saved workbook holds both rows
C6_Witness ==
    /\ pc = "done"
    /\ Len(processed) = 2
    /\ PrintedFor("Warning: failed to move", processed[1])
    /\ processed[1] \in QueueNames
    /\ processed[2] \in moved
    /\ saves = 1
    /\ disk[WORKBOOK_PATH].rows = sheet

\* the workbook file is absent, has no Listings sheet, or its header row
\* lacks a required header
UnusableWorkbook(wb) ==
    \/ ~wb.exists
    \/ "Listings" \notin wb.sheetnames
    \/ \E i \in DOMAIN REQUIRED_HEADERS : REQUIRED_HEADERS[i] \notin Range(read_headers(wb.rows))

AfterCleanRun == first_run.done /\ first_run.saved /\ first_run.all_moved

\* C18 as stated: after a run of process_queue that saved the workbook and
\* moved every processed input into processed/, a second run over the same
\* queue directory finds no input, appends no row and does not save, and the
\* workbook is as the first run left it.
C18_SecondRunFindsNoInput ==
    AfterCleanRun =>
        /\ queue = <<>>
        /\ calls = 0 /\ saves = 0
        /\ disk[WORKBOOK_PATH].rows = first_run.rows

\* C18, amended: after such a run, a second run finds only inputs that do
\* not load as a JSON object (those the first run skipped and left in the
\* queue directory), appends no row, does not save and moves nothing, so the
\* workbook is identical after one run and after two.
C18_NoDuplicationOnRerun ==
    [][AfterCleanRun =>
          /\ UNCHANGED <<disk, queue, moved>>
          /\ ObjectInputs(queue) = {}
          /\ calls' = 0 /\ saves' = 0 /\ processed' = <<>>
          /\ disk[WORKBOOK_PATH].rows = first_run.rows
          /\ pc' \in {"start", "loop", "done"}]_vars

\* the second run has ended after a first run that appended a row, saved and
\* moved its input, and skipped another input, which the second run found
\* and skipped again
C18_Witness ==
    /\ AfterCleanRun
    /\ pc = "done"
    /\ moved # {}
    /\ Len(json_files) = 1
    /\ PrintedFor("Skipping", json_files[1].name)
    /\ Printed("No listings appended") # {}
    /\ calls = 0 /\ saves = 0
    /\ disk[WORKBOOK_PATH].rows = first_run.rows

\* C19 as stated: if process_queue is interrupted at any point before the
\* workbook save completes, the workbook file is unchanged and no input has
\* been moved: every step of the run that ends with the save not completed
\* leaves the workbook file and the queue directory as they were.
C19_UnchangedUntilSaveCompletes ==
    [][(~first_run.done /\ saves' = 0) =>
          /\ UNCHANGED <<disk, queue, moved>>
          /\ moved = {}]_vars

\* C19, amended: if process_queue is interrupted at any point before the call
\* of wb.save is entered (after zero or more rows have been appended in
\* memory), the workbook file is unchanged and no input has been moved, and
\* the run started afterwards finds the same workbook rows and the same
\* inputs and appends one row for every input that loads as a JSON object.
C19_InterruptionBeforeSave ==
    [][/\ (~first_run.done /\ pc \in {"start", "loop"} /\ pc' # "save") =>
             /\ UNCHANGED <<disk, queue, moved>>
             /\ moved = {} /\ saves = 0
       /\ first_run.interrupted = "loop" =>
             /\ pc = "start" =>
                   /\ queue = first_run.inputs
                   /\ disk[WORKBOOK_PATH].rows = first_run.rows
                   /\ moved = {}
             /\ pc \in {"loop", "save", "move", "done"} =>
                   /\ json_files = first_run.inputs
                   /\ Len(sheet) = Len(first_run.rows) + calls
             /\ pc = "done" =>
                   /\ calls = Cardinality(ObjectInputs(first_run.inputs))
                   /\ first_run.appended => calls > 0]_vars

\* a run was interrupted in its loop after it had appended a row in memory;
\* the run started afterwards has appended that row again, saved and moved
\* the input
C19_Witness ==
    /\ first_run.interrupted = "loop"
    /\ first_run.appended
    /\ pc = "done"
    /\ calls = 1 /\ saves = 1
    /\ moved # {}
    /\ Len(disk[WORKBOOK_PATH].rows) = Len(first_run.rows) + 1

---------------------------------------------------------------------------
(* SpecBatch: main of the three batch runners of the identification agent. *)
(*                                                                         *)
(* A subdirectory of batch-image-sets is [name, input, llm]:               *)
(*   input "ok"         its images (its URL manifest) can be loaded,       *)
(*         "none"       it holds no JPG image (no or an empty manifest),   *)
(*         "unreadable" reading an image (the manifest) raises OSError;    *)
(*   llm   "json"       the model answers with text that parses as JSON,   *)
(*         "text"       it answers with text that does not,                *)
(*         "error"      client.responses.create raises.                    *)

BATCH_RUNNER == "batch_book_agent_runner"
YAML_RUNNER == "batch-yaml-JSON-args-runner"
GEMINI_RUNNER == "gemini-autooutput-runner"

Runners == {BATCH_RUNNER, YAML_RUNNER, GEMINI_RUNNER}

\* the command line and what it finds: the YAML configuration is "ok",
\* "missing" or "invalid"; image_root is IMAGE_ROOT.exists()
BatchArgs ==
    { [in_place |-> FALSE, runner |-> r, config |-> c, image_root |-> e] :
        r \in Runners, c \in {"ok", "missing", "invalid"}, e \in BOOLEAN }

DirectoryKinds == { [input |-> i, llm |-> l] : i \in {"ok", "none", "unreadable"}, l \in {"json", "text", "error"} }

Directories ==
    UNION { { [i \in 1..n |-> [name |-> i, input |-> f[i].input, llm |-> f[i].llm]] :
                f \in [1..n -> DirectoryKinds] } : n \in 0..MaxFiles }

\* process_directory: [outcome, exc, file]; outcome "skipped" (the directory
\* is passed over with a message), "raised" (the exception exc leaves the
\* function, nothing written) or "complete" (the output file was written)
process_directory(runner, d) ==
    LET Raised(exc) == [outcome |-> "raised", exc |-> exc, file |-> <<>>]
        Complete(suffix, content) ==
            [outcome |-> "complete", exc |-> "",
             file |-> [suffix |-> suffix, content |-> content]]
    IN  IF runner = GEMINI_RUNNER
        THEN \* image_urls = load_image_urls(directory); run_agent; write .txt
             CASE d.input = "none" -> Raised("FileNotFoundError")
               [] d.input = "unreadable" -> Raised("OSError")
               [] d.llm = "error" -> Raised("APIError")
               [] OTHER -> Complete(".txt", d.llm)
        ELSE \* image_paths = collect_images(directory); run_agent; write .json
             CASE d.input = "none" -> [outcome |-> "skipped", exc |-> "", file |-> <<>>]
               [] d.input = "unreadable" -> Raised("OSError")
               [] d.llm = "error" -> Raised("APIError")
               [] d.llm = "json" -> Complete(".json", "json")
               [] OTHER -> Complete(".json", "raw_text")

\* except (FileNotFoundError, ValueError) of the gemini runner's loop
caught_in_loop(runner, exc) ==
    runner = GEMINI_RUNNER /\ exc \in {"FileNotFoundError", "ValueError"}

InitBatch ==
    /\ pc = "start"
    /\ args \in BatchArgs
    /\ queue \in Directories
    /\ ~args.image_root => queue = <<>>
    /\ disk = NoDisk
    /\ moved = {} /\ json_files = <<>> /\ processed = <<>>
    /\ idx = 0 /\ mv = 0 /\ saves = 0 /\ log = <<>> /\ first_run = NoRun
    /\ IdleSheet /\ IdleText

BatchFrame == <<SheetVars, moved, json_files, processed, mv, saves, args, first_run, TextVars>>

\* the configuration file is absent: the runners with --config print an
\* error and return, batch_book_agent_runner opens it and raises
ConfigNotFound ==
    /\ pc = "start"
    /\ args.config = "missing"
    /\ IF args.runner = BATCH_RUNNER
       THEN pc' = "fatal" /\ UNCHANGED log
       ELSE pc' = "done" /\ log' = Append(log, Line("Error: Config file not found", 0))
    /\ UNCHANGED <<disk, queue, idx, BatchFrame>>

\* load_agent_config raises ValueError: caught by the gemini runner only
ConfigInvalid ==
    /\ pc = "start"
    /\ args.config = "invalid"
    /\ IF args.runner = GEMINI_RUNNER
       THEN pc' = "done" /\ log' = Append(log, Line("Error loading agent configuration", 0))
       ELSE pc' = "fatal" /\ UNCHANGED log
    /\ UNCHANGED <<disk, queue, idx, BatchFrame>>

\* if not IMAGE_ROOT.exists(): print; return
ImageRootMissing ==
    /\ pc = "start"
    /\ args.config = "ok"
    /\ ~args.image_root
    /\ log' = Append(log, Line("Image root does not exist", 0))
    /\ pc' = "done"
    /\ UNCHANGED <<disk, queue, idx, BatchFrame>>

\* if not directories: print; return
NoSubdirectories ==
    /\ pc = "start"
    /\ args.config = "ok"
    /\ args.image_root
    /\ queue = <<>>
    /\ log' = Append(log, Line("No subdirectories found", 0))
    /\ pc' = "done"
    /\ UNCHANGED <<disk, queue, idx, BatchFrame>>

\* for directory in directories:
EnterLoop ==
    /\ pc = "start"
    /\ args.config = "ok"
    /\ args.image_root
    /\ queue # <<>>
    /\ idx' = 1
    /\ pc' = "loop"
    /\ UNCHANGED <<disk, queue, log, BatchFrame>>

\* process_directory returns after "Skipping ...: no JPG images found."
DirectorySkipped ==
    /\ pc = "loop"
    /\ idx <= Len(queue)
    /\ process_directory(args.runner, queue[idx]).outcome = "skipped"
    /\ log' = Append(log, Line("Skipping", queue[idx].name))
    /\ idx' = idx + 1
    /\ UNCHANGED <<pc, disk, queue, BatchFrame>>

\* process_directory writes the output file and prints "... complete"
DirectoryComplete ==
    /\ pc = "loop"
    /\ idx <= Len(queue)
    /\ LET r == process_directory(args.runner, queue[idx])
       IN  /\ r.outcome = "complete"
           /\ disk' = (queue[idx].name :> r.file) @@ disk
    /\ log' = Append(log, Line("complete", queue[idx].name))
    /\ idx' = idx + 1
    /\ UNCHANGED <<pc, queue, BatchFrame>>

\* process_directory raises: the gemini runner prints "no url text file
\* found" and returns on FileNotFoundError and ValueError; every other
\* exception, and every exception in the two other runners, leaves main
DirectoryFails ==
    /\ pc = "loop"
    /\ idx <= Len(queue)
    /\ LET r == process_directory(args.runner, queue[idx])
       IN  /\ r.outcome = "raised"
           /\ IF caught_in_loop(args.runner, r.exc)
              THEN pc' = "done" /\ log' = Append(log, Line("no url text file found", 0))
              ELSE pc' = "fatal" /\ UNCHANGED log
    /\ UNCHANGED <<disk, queue, idx, BatchFrame>>

\* the loop has gone through every directory
BatchEnds ==
    /\ pc = "loop"
    /\ idx > Len(queue)
    /\ pc' = "done"
    /\ UNCHANGED <<disk, queue, idx, log, BatchFrame>>

NextBatch ==
    \/ ConfigNotFound \/ ConfigInvalid \/ ImageRootMissing \/ NoSubdirectories
    \/ EnterLoop \/ DirectorySkipped \/ DirectoryComplete \/ DirectoryFails
    \/ BatchEnds

SpecBatch == InitBatch /\ [][NextBatch]_vars

\* the LLM call or the loading of the inputs fails for this directory
\* (the model is only called for a directory whose inputs were loaded)
FailsFor(d) ==
    \/ d.input = "unreadable"
    \/ d.input = "ok" /\ d.llm = "error"
    \/ d.input = "none" /\ args.runner = GEMINI_RUNNER

\* the directory has what a run needs to write its output
Processable(d) == d.input = "ok" /\ d.llm # "error"

\* C20: in the three batch runners, when the LLM call or the input loading
\* fails for one image directory, the failure is reported and the runner
\* continues with the remaining directories: the run does not end in an
\* exception, and at its end every directory that can be processed has its
\* output file, also those after a failing one.
C20_PerItemRecovery ==
    (args.config = "ok" /\ args.image_root) =>
        /\ pc # "fatal"
        /\ pc = "done" => \A i \in DOMAIN queue :
                             Processable(queue[i]) => queue[i].name \in DOMAIN disk

\* position of the first directory the run fails for (0: none)
FirstFailure ==
    IF \E i \in DOMAIN queue : FailsFor(queue[i])
    THEN CHOOSE i \in DOMAIN queue :
            FailsFor(queue[i]) /\ \A j \in 1..(i - 1) : ~FailsFor(queue[j])
    ELSE 0

\* what the runners do: the run ends at the first directory it fails for.
\* Output files exist exactly for the processable directories before it;
\* the run ends in the exception, except for a missing or empty manifest in
\* the gemini runner, which prints "no url text file found" and returns.
C20_CodeBehaviour ==
    (args.config = "ok" /\ args.image_root /\ pc \in {"done", "fatal"}) =>
        /\ DOMAIN disk = {queue[i].name : i \in {j \in DOMAIN queue :
                             Processable(queue[j]) /\ (FirstFailure = 0 \/ j < FirstFailure)}}
        /\ FirstFailure = 0 => pc = "done"
        /\ FirstFailure # 0 =>
              IF args.runner = GEMINI_RUNNER /\ queue[FirstFailure].input = "none"
              THEN pc = "done" /\ PrintedFor("no url text file found", 0)
              ELSE pc = "fatal"

---------------------------------------------------------------------------
(* The worksheet functions of json_to_ebay_excel. *)

ACTION_PREFIX == "*Action("

\* the rows sheet.iter_rows(min_row=1, max_row=sheet.max_row) goes through
\* whose first cell is a string starting with "*Action("
header_rows(sh) ==
    {r \in DOMAIN sh :
        cell_value(sh, r, 1).k = "str" /\ StartsWith(cell_value(sh, r, 1).s, ACTION_PREFIX)}

\* [ok, header_row, headers]; not ok is the ValueError of a sheet without a
\* header row
read_header_row(sh) ==
    IF header_rows(sh) = {}
    THEN [ok |-> FALSE, header_row |-> 0, headers |-> <<>>]
    ELSE LET hr == CHOOSE r \in header_rows(sh) : \A q \in header_rows(sh) : r <= q
         IN  [ok |-> TRUE, header_row |-> hr,
              headers |-> [c \in 1..Width(sh) |->
                             IF cell_value(sh, hr, c).k = "str"
                             THEN cell_value(sh, hr, c).s ELSE ""]]

\* title_col_idx counts columns from 0
find_next_row(sh, title_col_idx, start_row) ==
    scan_title(sh, title_col_idx + 1, start_row + 1)

\* the first row below the header with a Title, as a mapping from header to
\* cell value; <<>> is None
derive_baseline(sh, header_row, headers) ==
    IF "Title" \notin Range(headers) THEN <<>>
    ELSE LET title_col == IndexOf(headers, "Title")
             titled == {r \in (header_row + 1)..Len(sh) :
                           ~IsBlank(cell_value(sh, r, title_col))}
         IN  IF titled = {} THEN <<>>
             ELSE LET r == CHOOSE t \in titled : \A q \in titled : t <= q
                  IN  [h \in Range(headers) |->
                         cell_value(sh, r,
                            CHOOSE c \in DOMAIN headers :
                               /\ headers[c] = h
                               /\ \A d \in DOMAIN headers : headers[d] = h => d <= c)]

\* the value apply_row stores in the cell of column `header`
apply_cell(header, value) ==
    IF value = PyStr("") THEN None
    ELSE IF EndsWith(lower(header), "price") /\ py_float(value).ok THEN py_float(value).v
    ELSE IF lower(header) = "quantity" /\ py_int(value).ok THEN py_int(value).v
    ELSE value

\* the sheet after apply_row; columns with an empty header are skipped
apply_row(sh, row_index, headers, values) ==
    put_row(sh, row_index,
            [c \in DOMAIN headers |-> apply_cell(headers[c], Get(values, headers[c], PyStr("")))],
            {c \in DOMAIN headers : headers[c] # ""})

\* title_col_idx = headers.index("Title") if "Title" in headers else 4
title_col_idx(headers) ==
    IF "Title" \in Range(headers) THEN IndexOf(headers, "Title") - 1 ELSE 4

---------------------------------------------------------------------------
(* SpecSingle: one run of main of json_to_ebay_excel. *)

EXCEL_PATH == "ebay-midsummer-upload-4.xlsx"
UPDATED_PATH == "ebay-midsummer-upload-4-updated.xlsx"
CUSTOM_PATH == "out.xlsx"

SingleArgs ==
    { NoOverrides(FALSE, None), NoOverrides(FALSE, PyStr(CUSTOM_PATH)),
      NoOverrides(FALSE, PyStr(EXCEL_PATH)), NoOverrides(TRUE, None),
      AllOverrides(FALSE, None), AllOverrides(TRUE, PyStr(CUSTOM_PATH)) }

\* a title that json.load gives as a number
NumberTitlePayload == << <<"title", PyInt(1984)>> >>

\* the row apply_row stores for a payload, as the cells of one sheet row
listing_cells(headers, payload) ==
    LET v == prepare_row_values(headers, payload, payload_lower(payload),
                                NoOverrides(FALSE, None), <<>>).values
    IN  [c \in DOMAIN headers |->
            IF headers[c] = "" THEN None
            ELSE apply_cell(headers[c], Get(v, headers[c], PyStr("")))]

ListingRows(headers) ==
    { listing_cells(headers, TitledPayload),
      listing_cells(headers, UntitledPayload),
      BlankRow(Len(headers)) }

\* zero or more rows above the header row, the header row, the rows below it
TemplateSheets(headers) ==
    { above \o <<header_cells(headers)>> \o rows :
        above \in { <<>>, <<[c \in DOMAIN headers |->
                               IF c = 1 THEN PyStr("Info") ELSE None]>> },
        rows \in UNION { [1..n -> ListingRows(headers)] : n \in 0..MaxRows } }

Templates ==
    { AbsentFile,
      Workbook({"INFO"}, <<>>),
      Workbook({"Listings", "INFO"}, <<>>),
      Workbook({"Listings", "INFO"}, << <<PyStr("Info"), PyStr("Title")>> >>) }
    \cup { Workbook({"Listings", "INFO"}, rows) :
             rows \in TemplateSheets(REQUIRED_HEADERS) \cup TemplateSheets(HeadersNoTitle) }

\* a workbook an earlier run left at an output path
OlderOutput == Workbook({"Listings"}, <<header_cells(REQUIRED_HEADERS)>>)

SingleInputs ==
    { <<>>,
      <<[name |-> 1, kind |-> "object", payload |-> NewPayload]>>,
      <<[name |-> 1, kind |-> "object", payload |-> UntitledPayload]>>,
      <<[name |-> 1, kind |-> "object", payload |-> NumberTitlePayload]>>,
      <<[name |-> 1, kind |-> "array", payload |-> <<>>]>>,
      <<[name |-> 1, kind |-> "malformed", payload |-> <<>>]>> }

\* load_json_payload: [ok, payload]; not ok is the JSONDecodeError of
\* json.load or the ValueError of a payload that is not an object
load_json_payload(file) == [ok |-> file.kind = "object", payload |-> file.payload]

\* the output_path of main
output_path(a) ==
    IF a.in_place THEN EXCEL_PATH
    ELSE IF Truthy(a.output) THEN a.output.s
    ELSE UPDATED_PATH

InitSingle ==
    /\ pc = "start"
    /\ args \in SingleArgs
    /\ \E t \in Templates, o \in {AbsentFile, OlderOutput} :
          disk = (EXCEL_PATH :> t) @@ (UPDATED_PATH :> o) @@ (CUSTOM_PATH :> o)
    /\ queue \in SingleInputs
    /\ moved = {} /\ json_files = <<>> /\ processed = <<>>
    /\ idx = 0 /\ mv = 0 /\ saves = 0 /\ log = <<>> /\ first_run = NoRun
    /\ IdleSheet /\ IdleText

SingleFrame == <<queue, moved, json_files, processed, idx, mv, first_run, TextVars>>

\* find_latest_json: raise FileNotFoundError
JsonNotFound ==
    /\ pc = "start"
    /\ queue = <<>>
    /\ pc' = "fatal"
    /\ UNCHANGED <<SheetVars, disk, saves, log, args, SingleFrame>>

\* load_json_payload raises
PayloadRejected ==
    /\ pc = "start"
    /\ queue # <<>>
    /\ ~load_json_payload(queue[1]).ok
    /\ pc' = "fatal"
    /\ UNCHANGED <<SheetVars, disk, saves, log, args, SingleFrame>>

PayloadLoaded == queue # <<>> /\ load_json_payload(queue[1]).ok

\* if not excel_path.exists(): raise FileNotFoundError
ExcelNotFound ==
    /\ pc = "start"
    /\ PayloadLoaded
    /\ ~disk[EXCEL_PATH].exists
    /\ pc' = "fatal"
    /\ UNCHANGED <<SheetVars, disk, saves, log, args, SingleFrame>>

\* if args.in_place: output_path = excel_path
OutputInPlace ==
    /\ pc = "start"
    /\ PayloadLoaded
    /\ disk[EXCEL_PATH].exists
    /\ args.in_place
    /\ pc' = "open"
    /\ UNCHANGED <<SheetVars, disk, saves, log, args, SingleFrame>>

\* shutil.copy2(excel_path, output_path) with both naming one file:
\* SameFileError
CopyOntoItself ==
    /\ pc = "start"
    /\ PayloadLoaded
    /\ disk[EXCEL_PATH].exists
    /\ ~args.in_place
    /\ output_path(args) = EXCEL_PATH
    /\ pc' = "fatal"
    /\ UNCHANGED <<SheetVars, disk, saves, log, args, SingleFrame>>

\* shutil.copy2(excel_path, output_path)
CopyWorkbook ==
    /\ pc = "start"
    /\ PayloadLoaded
    /\ disk[EXCEL_PATH].exists
    /\ ~args.in_place
    /\ output_path(args) # EXCEL_PATH
    /\ disk' = [disk EXCEPT ![output_path(args)] = disk[EXCEL_PATH]]
    /\ pc' = "open"
    /\ UNCHANGED <<SheetVars, saves, log, args, SingleFrame>>

\* if args.sheet not in wb.sheetnames: raise ValueError
SheetNotFound ==
    /\ pc = "open"
    /\ args.sheet \notin disk[output_path(args)].sheetnames
    /\ pc' = "fatal"
    /\ UNCHANGED <<SheetVars, disk, saves, log, args, SingleFrame>>

\* read_header_row raises ValueError
HeaderRowNotFound ==
    /\ pc = "open"
    /\ args.sheet \in disk[output_path(args)].sheetnames
    /\ ~read_header_row(disk[output_path(args)].rows).ok
    /\ sheet' = disk[output_path(args)].rows
    /\ pc' = "fatal"
    /\ UNCHANGED <<ret, calls, disk, saves, log, args, SingleFrame>>

\* read_header_row .. apply_row of main; normalize_text raising ends the run
\* before apply_row
AppendListing ==
    /\ pc = "open"
    /\ args.sheet \in disk[output_path(args)].sheetnames
    /\ read_header_row(disk[output_path(args)].rows).ok
    /\ LET sh == disk[output_path(args)].rows
           hdr == read_header_row(sh)
           baseline == derive_baseline(sh, hdr.header_row, hdr.headers)
           target_row == find_next_row(sh, title_col_idx(hdr.headers), hdr.header_row)
           payload == load_json_payload(queue[1]).payload
           row_values == prepare_row_values(hdr.headers, payload, payload_lower(payload),
                                            args, baseline)
       IN  IF row_values.ok
           THEN /\ sheet' = apply_row(sh, target_row, hdr.headers, row_values.values)
                /\ ret' = [ok |-> TRUE, target_row |-> target_row]
                /\ calls' = calls + 1
                /\ pc' = "save"
           ELSE /\ sheet' = sh
                /\ ret' = [ok |-> FALSE, target_row |-> target_row]
                /\ calls' = calls
                /\ pc' = "fatal"
    /\ UNCHANGED <<disk, saves, log, args, SingleFrame>>

\* wb.save(output_path); print
SaveOutput ==
    /\ pc = "save"
    /\ disk' = [disk EXCEPT ![output_path(args)] =
                   Workbook(disk[output_path(args)].sheetnames, sheet)]
    /\ saves' = saves + 1
    /\ log' = Append(log, Line("Appended listing", ret.target_row))
    /\ pc' = "done"
    /\ UNCHANGED <<SheetVars, args, SingleFrame>>

NextSingle ==
    \/ JsonNotFound
    \/ PayloadRejected
    \/ ExcelNotFound
    \/ OutputInPlace
    \/ CopyOntoItself
    \/ CopyWorkbook
    \/ SheetNotFound
    \/ HeaderRowNotFound
    \/ AppendListing
    \/ SaveOutput

SpecSingle == InitSingle /\ [][NextSingle]_vars

---------------------------------------------------------------------------
(* Properties of the single-file appender (SpecSingle). *)

\* this step is the part of main from read_header_row to apply_row, and
\* apply_row has written
ListingApplied == pc = "open" /\ pc' = "save"

\* C3: the row the single-file appender writes is strictly after the last
\* row that holds any listing data, and no row that already holds a
\* non-empty cell is overwritten, rows with an empty Title cell and filled
\* other cells included.
C3_NeverOverwrites ==
    [][ListingApplied =>
          LET before == disk[output_path(args)].rows
          IN  \A r \in DOMAIN before :
                 HasData(before, r) =>
                    /\ r < ret'.target_row
                    /\ sheet'[r] = before[r]]_vars

\* What the code does: it writes the first row below the header row whose
\* cell in the scanned column is empty, whatever that row's other cells hold
\* and whatever rows lie below it; every other row is as it was.
C3_CodeBehaviour ==
    [][ListingApplied =>
          LET before == disk[output_path(args)].rows
              hdr == read_header_row(before)
              col == title_col_idx(hdr.headers) + 1
              t == ret'.target_row
          IN  /\ t > hdr.header_row
              /\ IsBlank(cell_value(before, t, col))
              /\ \A r \in (hdr.header_row + 1)..(t - 1) : ~IsBlank(cell_value(before, r, col))
              /\ \A r \in DOMAIN before : r # t => sheet'[r] = before[r]]_vars

\* the template exists and has no Listings sheet, or no row of that sheet
\* starts with "*Action("
BrokenTemplate(wb) ==
    /\ wb.exists
    /\ \/ "Listings" \notin wb.sheetnames
       \/ ~read_header_row(wb.rows).ok

\* C8: a run without --in-place on such a template creates no file and
\* modifies none: no step of the run changes any path, the output path
\* included.
C8_FatalLeavesUntouched ==
    [][(~args.in_place /\ BrokenTemplate(disk[EXCEL_PATH])) =>
          /\ disk' = disk
          /\ saves' = saves]_vars

\* What the code keeps on such a template: the template itself, and the run
\* never reaches the save.
C8_CodeBehaviour ==
    [][(~args.in_place /\ BrokenTemplate(disk[EXCEL_PATH])) =>
          /\ disk'[EXCEL_PATH] = disk[EXCEL_PATH]
          /\ saves' = saves
          /\ pc' # "save"]_vars

\* C9: when the header row holds no Title column, the append of main fails
\* with an error and writes no cell.
C9_MissingTitleIsError ==
    [][(/\ pc = "open"
        /\ args.sheet \in disk[output_path(args)].sheetnames
        /\ read_header_row(disk[output_path(args)].rows).ok
        /\ "Title" \notin Range(read_header_row(disk[output_path(args)].rows).headers)) =>
          /\ pc' = "fatal"
          /\ sheet' = disk[output_path(args)].rows]_vars

\* The batch append_row on a header row without Title: it raises and the
\* sheet is as it was (SpecAppend).
C9_BatchAppendRaises ==
    [][(calls' = calls + 1 /\ "Title" \notin Range(read_headers(sheet))) =>
          /\ ~ret'.ok
          /\ sheet' = sheet]_vars

---------------------------------------------------------------------------
(* SpecRow: the four row builders on drawn schemas, payloads and options. *)

\* a header row in the File Exchange style
FILE_EXCHANGE_HEADERS ==
    << H_ACTION, "*Category", "Title", "*ConditionID", "*Description", "PicURL",
       "Start price", "Quantity", "Max dispatch time", "Returns accepted option",
       "Refund option", "Shipping profile name" >>

RowArgs == { NoOverrides(FALSE, None), AllOverrides(FALSE, None), EmptyOverrides }

\* a title of 60 characters: blanks around it, a blank at the place the
\* 50-character budget cuts, and characters the normalisers replace
LONG_TITLE ==
    " The Whale" \o CH_EMDASH \o "or Moby Dick, a Novel of the Sea in Three    Volumes" \o CH_ELLIPSIS \o " "

LongTitlePayload == << <<"title", PyStr(LONG_TITLE)>>, <<"author", PyStr("H. Melville")>> >>

\* a payload with every recognised field but the author, its keys in mixed case
FieldsPayload ==
    << <<"TITLE", PyStr(" Typee ")>>, <<"Edition", PyStr("1st" \o CH_ELLIPSIS)>>,
       <<"Year", PyStr("1846")>>, <<"publisher", PyStr("Wiley & Putnam")>> >>

RowPayloads ==
    { <<>>, NewPayload, TitledPayload, UntitledPayload, LongTitlePayload, FieldsPayload,
      << <<"title", PyStr("Dispatch")>>, <<"Max dispatch time", PyStr("5")>>,
         <<"Refund option", PyStr("Exchange")>> >>,
      << <<"title", PyStr("Worn")>>, <<"condition", PyStr("Good")>> >> }

RowHeaders == { REQUIRED_HEADERS, HeadersNoTitle, FILE_EXCHANGE_HEADERS }

\* zero or one listing below the header row, for the baseline
RowSheets(headers) ==
    { <<header_cells(headers)>>,
      <<header_cells(headers),
        [c \in DOMAIN headers |->
            CASE headers[c] = "Title" -> PyStr("Old Book")
              [] headers[c] = "Shipping profile name" -> PyStr("Old Shipping")
              [] headers[c] = "Max dispatch time" -> PyInt(2)
              [] OTHER -> None]>> }

NoRow == [fn |-> "none", row |-> <<>>]

\* what a payload can hold for a section of the description: nothing, null,
\* the empty text, blanks only, a text the normalisers change
SectionValues == { None, PyStr(""), PyStr("  "), PyStr(" it" \o CH_RSQUO \o "s ") }

\* the member of a payload for field f, or no member
Member(f, present, v) == IF present THEN << <<f, v>> >> ELSE <<>>

\* payloads over the three description fields
DescriptionPayloads ==
    { Member("blurb", pb, b) \o Member("Condition", pc_, c) \o Member("details", pd, d) :
        pb \in BOOLEAN, pc_ \in BOOLEAN, pd \in BOOLEAN,
        b \in SectionValues, c \in SectionValues, d \in SectionValues }

InitRow ==
    /\ pc = "call"
    /\ \/ /\ sheet \in UNION { RowSheets(h) : h \in RowHeaders }
          /\ queue \in { <<[name |-> 1, kind |-> "object", payload |-> p]>> : p \in RowPayloads }
          /\ args \in RowArgs
       \/ /\ sheet \in { <<header_cells(REQUIRED_HEADERS)>>, <<header_cells(FILE_EXCHANGE_HEADERS)>> }
          /\ queue \in { <<[name |-> 1, kind |-> "object", payload |-> p]>> :
                            p \in DescriptionPayloads }
          /\ args = NoOverrides(FALSE, None)
    /\ out = NoRow
    /\ ret = NoRet /\ calls = 0
    /\ disk = NoDisk /\ moved = {} /\ json_files = <<>> /\ processed = <<>>
    /\ idx = 0 /\ mv = 0 /\ saves = 0 /\ log = <<>> /\ first_run = NoRun
    /\ text = "" /\ limit = 0

RowFrame == <<sheet, ret, calls, disk, queue, moved, json_files, processed, idx, mv,
              saves, log, args, text, limit, first_run>>

\* build_row(header_order, payload) of append_json_queue_to_excel
CallBuildRow ==
    /\ pc = "call"
    /\ out' = [fn |-> "build_row",
               row |-> build_row(read_headers(sheet), queue[1].payload)]
    /\ pc' = "returned"
    /\ UNCHANGED RowFrame

\* build_row(header_order, payload) of CL_append_input_arg_excel
CallBuildRowCL ==
    /\ pc = "call"
    /\ out' = [fn |-> "build_row_CL",
               row |-> build_row_CL(read_headers(sheet), queue[1].payload)]
    /\ pc' = "returned"
    /\ UNCHANGED RowFrame

\* make_row(payload, args) of archives-all/json_to_ebay_excel, as the mapping
\* from each header to the list's value at the header's place
CallMakeRow ==
    /\ pc = "call"
    /\ out' = [fn |-> "make_row",
               row |-> [h \in Range(HEADERS) |->
                          make_row(queue[1].payload, args)[IndexOf(HEADERS, h)]]]
    /\ pc' = "returned"
    /\ UNCHANGED RowFrame

\* prepare_row_values(headers, payload, payload_lower, args, baseline) of
\* json_to_ebay_excel, with the headers and the baseline main reads
CallPrepareRowValues ==
    /\ pc = "call"
    /\ LET hdr == read_header_row(sheet)
           payload == queue[1].payload
       IN  out' = [fn |-> "prepare_row_values",
                   row |-> prepare_row_values(hdr.headers, payload, payload_lower(payload),
                              args, derive_baseline(sheet, hdr.header_row, hdr.headers)).values]
    /\ pc' = "returned"
    /\ UNCHANGED RowFrame

NextRow == CallBuildRow \/ CallBuildRowCL \/ CallMakeRow \/ CallPrepareRowValues

SpecRow == InitRow /\ [][NextRow]_vars

---------------------------------------------------------------------------
(* Properties of the row builders (SpecRow). *)

\* every forced-blank column the row has holds the empty string
ForcedBlank(row) == \A h \in FORCED_BLANK_HEADERS \cap DOMAIN row : row[h] = PyStr("")

\* C4: in the row of every row-building variant, for every payload, default
\* and override, each forced-blank column that is in the schema holds the
\* empty string.
C4_ForcedBlankPrecedence == pc = "returned" => ForcedBlank(out.row)

\* The three variants that blank the columns as their last step.
C4_BlankingVariants ==
    (pc = "returned" /\ out.fn # "prepare_row_values") => ForcedBlank(out.row)

\* the row has both title columns
HasTitleColumns(row) == {"Title", "C:Book Title"} \subseteq DOMAIN row

\* the title of the payload the call was given, as a payload value
PayloadTitle == Get(payload_lower(queue[1].payload), "title", None)

\* C13: with both Title and C:Book Title in the schema, build_row of
\* CL_append_input_arg_excel and prepare_row_values give C:Book Title equal
\* to Title; build_row of append_json_queue_to_excel gives C:Book Title equal
\* to the 50-character truncation of Title and leaves Title, the normalised
\* title of the payload, at its full length.
C13_TitleMirroring ==
    (pc = "returned" /\ HasTitleColumns(out.row)) =>
       /\ out.fn \in {"build_row_CL", "prepare_row_values"} =>
             out.row["C:Book Title"] = out.row["Title"]
       /\ out.fn = "build_row" =>
             /\ out.row["C:Book Title"] = PyStr(truncate(out.row["Title"].s, 50))
             /\ out.row["Title"] = PyStr(normalise_text(PayloadTitle))

\* the truncating variant built a row from a title longer than 50 characters
C13_Witness ==
    /\ pc = "returned"
    /\ out.fn = "build_row"
    /\ HasTitleColumns(out.row)
    /\ Len(out.row["Title"].s) > 50
    /\ Len(out.row["C:Book Title"].s) <= 50
    /\ EndsWith(out.row["C:Book Title"].s, "...")
    /\ out.row["C:Book Title"] # out.row["Title"]

\* the static default table of the variant that built the row
StaticDefaults ==
    CASE out.fn = "prepare_row_values" -> DEFAULTS
      [] out.fn = "make_row" -> DEFAULT_VALUES_archive
      [] OTHER -> DEFAULT_VALUES

\* the option of the command line that overrides column h; the batch
\* builders take no options
OverrideOf ==
    ("Start price" :> "start_price") @@ ("Quantity" :> "quantity") @@
    ("Condition ID" :> "condition_id") @@ ("Category ID" :> "category_id") @@
    ("Category name" :> "category_name") @@ ("Item photo URL" :> "image_url") @@
    ("Location" :> "location") @@ ("Shipping profile name" :> "shipping_profile") @@
    ("Return profile name" :> "return_profile") @@
    ("Payment profile name" :> "payment_profile")

OverrideGiven(h) ==
    /\ out.fn \in {"prepare_row_values", "make_row"}
    /\ h \in DOMAIN OverrideOf
    /\ args[OverrideOf[h]] # None

\* columns with a static default that no payload field, option or
\* forced-blank rule touches
DefaultOnlyColumns ==
    {h \in DOMAIN out.row \cap DOMAIN StaticDefaults :
        /\ h \notin Range(JSON_FIELD_MAP)
        /\ h \notin FORCED_BLANK_HEADERS
        /\ ~OverrideGiven(h)}

\* C15: every such column of the built row holds exactly its static default,
\* whatever the payload and whatever rows the sheet already holds.
C15_IdempotentDefaulting ==
    pc = "returned" => \A h \in DefaultOnlyColumns : out.row[h] = StaticDefaults[h]

\* What the code keeps: the static default in every such column but the
\* three policy columns of prepare_row_values, which take the value of the
\* first titled row of the sheet when that value is not empty.
C15_CodeBehaviour ==
    pc = "returned" =>
       \A h \in DefaultOnlyColumns :
          \/ out.row[h] = StaticDefaults[h]
          \/ /\ out.fn = "prepare_row_values"
             /\ h \in PolicyKeys
             /\ LET hdr == read_header_row(sheet)
                IN  out.row[h] = derive_baseline(sheet, hdr.header_row, hdr.headers)[h]

\* the text of a description field of the payload after the normaliser of
\* the variant that built the row
SectionText(f) ==
    LET v == Get(payload_lower(queue[1].payload), f, None)
    IN  CASE out.fn = "prepare_row_values" -> normalize_text(v).s
          [] out.fn = "make_row" -> clean_text(v)
          [] OTHER -> normalise_text(v)

\* a section: its label, a newline and its text, or nothing for an empty text
Labeled(label, t) == IF t = "" THEN "" ELSE label \o "\n" \o t

\* two parts with one blank line between them when neither is empty
BlankLineBetween(x, y) == IF x = "" \/ y = "" THEN x \o y ELSE x \o "\n\n" \o y

\* the column the variant writes the description to
DescriptionColumn ==
    IF out.fn = "prepare_row_values" /\ "*Description" \in DOMAIN out.row
    THEN "*Description" ELSE "Description"

\* C16: the Description is the blurb, the "Condition Notes:" section and the
\* "Collector Details:" section, in that order, joined by one blank line; a
\* section whose text is absent, null or empty after normalisation is left
\* out with its label; with all three left out it is the empty string.
C16_DescriptionComposition ==
    (pc = "returned" /\ DescriptionColumn \in DOMAIN out.row) =>
       out.row[DescriptionColumn] =
          PyStr(BlankLineBetween(
                   BlankLineBetween(SectionText("blurb"),
                                    Labeled("Condition Notes:", SectionText("condition"))),
                   Labeled("Collector Details:", SectionText("details"))))

\* a description of a blurb and details, the condition of blanks left out
C16_Witness ==
    /\ pc = "returned"
    /\ out.fn = "build_row"
    /\ "Description" \in DOMAIN out.row
    /\ Get(payload_lower(queue[1].payload), "condition", None) = PyStr("  ")
    /\ out.row["Description"] = PyStr("it's\n\nCollector Details:\nit's")

---------------------------------------------------------------------------
(* SpecNormalise: the three text normalisers on drawn scalar values. *)

\* what json.load gives for a scalar: null, integers, a decimal fraction,
\* texts
ScalarValues ==
    {None} \cup {PyInt(n) : n \in {0, 7, 1851, -3}} \cup {PyFloat(185, 1)}
    \cup {PyStr(t) : t \in Texts(MaxLen - 2)}

NoText == [fn |-> "none", ok |-> TRUE, s |-> ""]

InitNormalise ==
    /\ pc = "call"
    /\ text \in ScalarValues
    /\ limit = 0
    /\ out = NoText
    /\ IdleSheet /\ IdleFiles

\* normalise_text(value) of the batch appenders
CallNormaliseText ==
    /\ pc = "call"
    /\ out' = [fn |-> "normalise_text", ok |-> TRUE, s |-> normalise_text(text)]
    /\ pc' = "returned"
    /\ UNCHANGED <<text, limit, SheetVars, FileVars>>

\* normalize_text(text) of json_to_ebay_excel; not ok is the AttributeError
CallNormalizeText ==
    /\ pc = "call"
    /\ out' = [fn |-> "normalize_text", ok |-> normalize_text(text).ok,
               s |-> normalize_text(text).s]
    /\ pc' = "returned"
    /\ UNCHANGED <<text, limit, SheetVars, FileVars>>

\* clean_text(value) of archives-all/json_to_ebay_excel
CallCleanText ==
    /\ pc = "call"
    /\ out' = [fn |-> "clean_text", ok |-> TRUE, s |-> clean_text(text)]
    /\ pc' = "returned"
    /\ UNCHANGED <<text, limit, SheetVars, FileVars>>

NextNormalise == CallNormaliseText \/ CallNormalizeText \/ CallCleanText

SpecNormalise == InitNormalise /\ [][NextNormalise]_vars

---------------------------------------------------------------------------
(* Properties of the normalisers (SpecNormalise). *)

\* the call returned a string; null gave the empty string, a number its
\* decimal text
TotalOnScalar ==
    /\ out.ok
    /\ text = None => out.s = ""
    /\ text = PyInt(0) => out.s = "0"
    /\ text = PyInt(1851) => out.s = "1851"
    /\ text = PyInt(-3) => out.s = "-3"
    /\ text = PyFloat(185, 1) => out.s = "18.5"
    /\ text.k \in {"int", "float"} => out.s # ""

\* C17: every normaliser returns a string for a string, a number or null,
\* without raising: the empty string for null, the decimal text for a number.
C17_NormalisationTotal == pc = "returned" => TotalOnScalar

\* The normalisers of the batch scripts and of the archive script.
C17_BatchAndArchive ==
    (pc = "returned" /\ out.fn \in {"normalise_text", "clean_text"}) => TotalOnScalar

\* normalize_text of json_to_ebay_excel: the empty string for null and for
\* zero, an error for every other number, a string for a string.
C17_CodeBehaviour ==
    (pc = "returned" /\ out.fn = "normalize_text") =>
       /\ out.ok <=> (text.k \in {"none", "str"} \/ text.n = 0)
       /\ text \in {None, PyInt(0)} => out.s = ""

---------------------------------------------------------------------------
(* SpecCoerce: one call of append_row (the batch appenders) or of          *)
(* apply_row (json_to_ebay_excel) on a worksheet whose header row holds    *)
(* price and quantity columns in several spellings and a column without a  *)
(* name, with drawn row values.                                            *)

CoerceHeaders ==
    << H_ACTION, "Title", "Start price", "Buy It Now price", "Sale Price",
       "Quantity", "QUANTITY", "Condition ID", "" >>

PriceColumns == {"Start price", "Buy It Now price", "Sale Price"}
CountColumns == {"Quantity", "QUANTITY", "Condition ID"}

\* a value json.load or argparse can give: empty, null, numerals with and
\* without blanks around them, words, numbers
CellValues ==
    { PyStr(""), None, PyStr("5.00"), PyStr(" -7.5 "), PyStr("call for price"),
      PyInt(5), PyFloat(15, 1), PyStr("1"), PyStr("1.5"), PyStr("two"), PyInt(1) }

\* a row mapping: one value in the price columns, one in the other columns;
\* or a mapping that holds the Title only
CoerceInputs ==
    { [h \in {"Title"} \cup PriceColumns \cup CountColumns \cup {""} |->
          IF h = "Title" THEN PyStr("New Book")
          ELSE IF h \in PriceColumns THEN vp ELSE vq] :
        vp \in CellValues, vq \in CellValues }
    \cup { ("Title" :> PyStr("New Book")) }

\* a row left behind with its Title cleared and its other cells filled
StaleRow == [c \in DOMAIN CoerceHeaders |-> IF CoerceHeaders[c] = "Title" THEN None ELSE PyStr("stale")]

CoerceSheets ==
    { <<header_cells(CoerceHeaders)>>, <<header_cells(CoerceHeaders), StaleRow>> }

InitCoerce ==
    /\ pc = "call"
    /\ sheet \in CoerceSheets
    /\ ret = NoRet
    /\ calls = 0
    /\ IdleFiles /\ IdleText

\* append_row(sheet, headers, row_values) with headers = read_headers(sheet)
CallAppendRowOnce ==
    /\ pc = "call"
    /\ \E row_values \in CoerceInputs :
          LET r == append_row(sheet, read_headers(sheet), row_values)
          IN  /\ sheet' = r.sheet
              /\ ret' = [ok |-> r.ok, target_row |-> r.target_row,
                         row_values |-> row_values]
    /\ calls' = calls + 1
    /\ pc' = "append_row"
    /\ UNCHANGED <<FileVars, TextVars>>

\* apply_row(sheet, target_row, headers, row_values) as main calls it, with
\* the header row of read_header_row and the target row of find_next_row
CallApplyRow ==
    /\ pc = "call"
    /\ \E row_values \in CoerceInputs :
          LET hdr == read_header_row(sheet)
              target_row == find_next_row(sheet, title_col_idx(hdr.headers), hdr.header_row)
          IN  /\ sheet' = apply_row(sheet, target_row, hdr.headers, row_values)
              /\ ret' = [ok |-> TRUE, target_row |-> target_row,
                         row_values |-> row_values]
    /\ calls' = calls + 1
    /\ pc' = "apply_row"
    /\ UNCHANGED <<FileVars, TextVars>>

NextCoerce == CallAppendRowOnce \/ CallApplyRow

SpecCoerce == InitCoerce /\ [][NextCoerce]_vars

---------------------------------------------------------------------------
(* Properties of the cell coercions (SpecCoerce). *)

\* the value the call was given for the column, "" when the mapping has none
Given(h) == Get(ret.row_values, h, PyStr(""))

\* the cell the call wrote in the column named h
Written(h) == sheet[ret.target_row][IndexOf(CoerceHeaders, h)]

\* the numeric conversion when it succeeds, the raw value otherwise
FloatOrRaw(v) == IF py_float(v).ok THEN py_float(v).v ELSE v
IntOrRaw(v) == IF py_int(v).ok THEN py_int(v).v ELSE v

\* C21: in append_row of the batch appender, for every column whose name is
\* or ends with "price" and every non-empty value of that column, the cell
\* receives the numeric conversion of the value when the conversion
\* succeeds and the raw value otherwise.
C21_PriceSuffixCoercion ==
    pc = "append_row" =>
        \A h \in Range(CoerceHeaders) :
            (EndsWith(h, "price") /\ ~IsBlank(Given(h))) => Written(h) = FloatOrRaw(Given(h))

\* what the code does: append_row of the batch appenders converts the column
\* named exactly "Start price" and no other; apply_row of json_to_ebay_excel
\* converts every column whose lower-cased name ends with "price".
C21_CodeBehaviour ==
    /\ pc = "append_row" =>
          \A h \in PriceColumns :
              ~IsBlank(Given(h)) =>
                  Written(h) = IF h = "Start price" THEN FloatOrRaw(Given(h)) ELSE Given(h)
    /\ pc = "apply_row" =>
          \A h \in PriceColumns :
              ~IsBlank(Given(h)) => Written(h) = FloatOrRaw(Given(h))

\* the columns of CoerceHeaders with a name
NamedColumns == Range(CoerceHeaders) \ {"", H_ACTION}

\* integer conversion of the column, with the fallback to the raw value, and
\* no integer conversion of any other column
QuantityCoerced(IsQuantity(_)) ==
    /\ ret.ok
    /\ \A h \in NamedColumns :
          ~IsBlank(Given(h)) =>
              IF IsQuantity(h)
              THEN /\ Written(h) = IntOrRaw(Given(h))
                   /\ Given(h) \in {PyInt(1), PyStr("1")} => Written(h) = PyInt(1)
                   /\ Given(h) \in {PyStr("1.5"), PyStr("two")} => Written(h) = Given(h)
              ELSE Written(h) \in {Given(h), FloatOrRaw(Given(h))}

\* C22 as stated: for every non-empty value of the column named exactly
\* "Quantity" the integer conversion is written when the value converts (1
\* and "1" as the integer 1) and the raw value when it does not ("1.5",
\* "two"); no conversion error escapes, and no column other than "Quantity"
\* is integer-coerced -- in append_row and in apply_row.
C22_OnlyQuantityExactly ==
    pc \in {"append_row", "apply_row"} => QuantityCoerced(LAMBDA h : h = "Quantity")

\* C22, amended: as stated for append_row of the batch appender; apply_row
\* of json_to_ebay_excel compares the lower-cased column name, so there the
\* integer conversion also reaches a column named "QUANTITY" or "quantity"
\* and no column whose lower-cased name is not "quantity".
C22_QuantityCoercion ==
    /\ pc = "append_row" => QuantityCoerced(LAMBDA h : h = "Quantity")
    /\ pc = "apply_row" => QuantityCoerced(LAMBDA h : lower(h) = "quantity")

\* append_row was given the string "1" in every count column: the Quantity
\* cell holds the integer 1, the other cells the string
C22_Witness ==
    /\ pc = "append_row"
    /\ Given("Quantity") = PyStr("1")
    /\ Written("Quantity") = PyInt(1)
    /\ Written("QUANTITY") = PyStr("1")
    /\ Written("Condition ID") = PyStr("1")

\* the call's row value for column c is the empty string, null or absent
BlankGiven(c) == IsBlank(Get(ret'.row_values, CoerceHeaders[c], PyStr("")))

---------------------------------------------------------------------------
(* Properties of the row builders (SpecRow), continued. *)

\* the payload the call was given, its keys lower-cased
GivenPayload == payload_lower(queue[1].payload)

\* the value of column h after the defaults step of the builder that ran
\* (in prepare_row_values: after the defaults and the baseline adoption,
\* which reaches the three policy columns only)
AfterDefaults(h) ==
    IF out.fn = "prepare_row_values"
    THEN IF h \in DOMAIN DEFAULTS THEN DEFAULTS[h] ELSE PyStr("")
    ELSE IF h \in DOMAIN DEFAULT_VALUES THEN DEFAULT_VALUES[h] ELSE PyStr("")

\* C24: in build_row (both batch appenders) and prepare_row_values, for each
\* of the recognised fields title, author, edition, year, publisher, matched
\* case-insensitively: when the payload does not hold the field, the mapped
\* column has the value it had after the defaults step; when it holds it,
\* the mapped column has the normalised text of the field.
C24_FieldMappingFrame ==
    (pc = "returned" /\ out.fn \in {"build_row", "build_row_CL", "prepare_row_values"}) =>
        \A f \in DOMAIN JSON_FIELD_MAP :
            LET h == JSON_FIELD_MAP[f]
            IN  h \in DOMAIN out.row =>
                   IF f \in DOMAIN GivenPayload
                   THEN (GivenPayload[f].k = "str" /\ h # "C:Author") =>
                            out.row[h] = PyStr(normalise_text(GivenPayload[f]))
                   ELSE out.row[h] = AfterDefaults(h)

\* build_row was given a payload with title, edition, year and publisher
\* under keys in mixed case and without an author: the author column is as
\* the defaults step left it, the others hold the normalised fields
C24_Witness ==
    /\ pc = "returned"
    /\ out.fn = "build_row"
    /\ queue[1].payload = FieldsPayload
    /\ Range(JSON_FIELD_MAP) \subseteq DOMAIN out.row
    /\ out.row["C:Author"] = PyStr("")
    /\ out.row["Title"] = PyStr("Typee")
    /\ out.row["C:Edition"] = PyStr("1st...")
    /\ out.row["C:Publication Year"] = PyStr("1846")
    /\ out.row["C:Publisher"] = PyStr("Wiley & Putnam")

\* the options of the command line that override a column; the archive
\* script has no --category-name
OverrideOptions ==
    IF out.fn = "make_row"
    THEN Range(OverrideOf) \ {"category_name"}
    ELSE Range(OverrideOf)

\* the column an option overrides in the schema of the built row
ColumnOf(o) ==
    LET hs == DOMAIN out.row
    IN  CASE o = "condition_id" /\ "Condition ID" \notin hs -> "*ConditionID"
          [] o = "category_id" /\ "Category ID" \notin hs -> "*Category"
          [] o = "image_url" /\ "Item photo URL" \notin hs -> "PicURL"
          [] OTHER -> FieldOf(OverrideOf, o)

\* the row the same builder gives for the same payload and sheet when no
\* option is supplied
RowWithoutOverrides ==
    IF out.fn = "make_row"
    THEN [h \in Range(HEADERS) |->
            make_row(queue[1].payload, NoOverrides(FALSE, None))[IndexOf(HEADERS, h)]]
    ELSE LET hdr == read_header_row(sheet)
         IN  prepare_row_values(hdr.headers, queue[1].payload, GivenPayload,
                NoOverrides(FALSE, None),
                derive_baseline(sheet, hdr.header_row, hdr.headers)).values

\* the row holds the value of option o in its column (the quantity as the
\* number or as its decimal text)
HoldsOverride(o) == out.row[ColumnOf(o)] \in {args[o], PyStr(py_str(args[o]))}

\* C25: in prepare_row_values and make_row, for each option that is supplied
\* and whose column is in the schema, the row holds the option's value in
\* that column, whatever the defaults, the baseline and the payload hold; a
\* column whose option is not supplied has the value of the earlier steps.
C25_OverridePrecedence ==
    (pc = "returned" /\ out.fn \in {"prepare_row_values", "make_row"}) =>
        \A o \in OverrideOptions :
            ColumnOf(o) \in DOMAIN out.row =>
                IF args[o] # None
                THEN HoldsOverride(o)
                ELSE out.row[ColumnOf(o)] = RowWithoutOverrides[ColumnOf(o)]

\* the options the builder tests for truth, not for presence: given as the
\* empty string they are passed over
TestedForTruth ==
    IF out.fn = "make_row"
    THEN {"category_id"}
    ELSE {"category_name", "image_url", "location", "shipping_profile",
          "return_profile", "payment_profile"}

\* what the builders do: an option tested with `is not None` overrides its
\* column whenever it is supplied; an option tested for truth overrides it
\* only when it is not the empty string, and otherwise the column keeps the
\* value of the earlier steps.
C25_CodeBehaviour ==
    (pc = "returned" /\ out.fn \in {"prepare_row_values", "make_row"}) =>
        \A o \in OverrideOptions :
            ColumnOf(o) \in DOMAIN out.row =>
                IF args[o] # None /\ (o \in TestedForTruth => Truthy(args[o]))
                THEN HoldsOverride(o)
                ELSE out.row[ColumnOf(o)] = RowWithoutOverrides[ColumnOf(o)]

---------------------------------------------------------------------------
(* SpecManifest: the URL manifest uploaded_urls.txt, written by the upload
   script and read by the Gemini runner. *)

\* public URLs as public_url builds them for the renamed images of a folder
Urls == {"https://b.s3/k/k-01.jpg", "https://b.s3/k/k-02.jpg",
         "https://b.s3/k/k-03.jpeg", "https://b.s3/p/k/k-01.jpg"}

\* lists of distinct URLs: every uploaded image has its own key
UrlLists ==
    {l \in UNION {[1..n -> Urls] : n \in 1..MaxUrls} :
        \A i, j \in DOMAIN l : l[i] = l[j] => i = j}

\* raw.split(sep) for a separator of one character
RECURSIVE split(_, _)
split(raw, sep) ==
    IF \A i \in 1..Len(raw) : CharAt(raw, i) # sep THEN <<raw>>
    ELSE LET i == CHOOSE i \in 1..Len(raw) :
                      CharAt(raw, i) = sep /\ \A j \in 1..(i - 1) : CharAt(raw, j) # sep
         IN  <<SubSeq(raw, 1, i - 1)>> \o split(SubSeq(raw, i + 1, Len(raw)), sep)

\* the text write_url_manifest writes to uploaded_urls.txt
write_url_manifest(urls) == join(", ", urls)

\* load_image_urls on the text of an existing manifest: ok is FALSE when it
\* raises ValueError
load_image_urls(raw) ==
    LET parts == split(raw, "|")
        urls == SelectSeq([i \in DOMAIN parts |-> strip(parts[i])], LAMBDA part : part # "")
    IN  [ok |-> urls # <<>>, urls |-> urls]

InitManifest ==
    /\ pc = "start"
    /\ json_files \in UrlLists
    /\ text = "" /\ limit = 0 /\ out = NoOut
    /\ IdleSheet
    /\ disk = NoDisk /\ queue = <<>> /\ moved = {} /\ processed = <<>>
    /\ idx = 0 /\ mv = 0 /\ saves = 0 /\ log = <<>> /\ args = NoArgs
    /\ first_run = NoRun

\* process_directory of the upload script writes the manifest for the URLs
\* of the uploaded images (json_files holds the list, text the file)
WriteUrlManifest ==
    /\ pc = "start"
    /\ text' = write_url_manifest(json_files)
    /\ pc' = "written"
    /\ UNCHANGED <<SheetVars, FileVars, limit, out>>

\* the Gemini runner reads the manifest of the directory
LoadImageUrls ==
    /\ pc = "written"
    /\ out' = [fn |-> "load_image_urls", ok |-> load_image_urls(text).ok,
               urls |-> load_image_urls(text).urls]
    /\ pc' = "loaded"
    /\ UNCHANGED <<SheetVars, FileVars, text, limit>>

NextManifest == WriteUrlManifest \/ LoadImageUrls

SpecManifest == InitManifest /\ [][NextManifest]_vars

\* C26: for every non-empty list of URLs, the manifest written by
\* write_url_manifest is read back by load_image_urls as the same list of
\* URLs in the same order, one entry per uploaded image.
C26_ManifestRoundTrip ==
    pc = "loaded" => (out.ok /\ out.urls = json_files)

\* what the two scripts do together: the writer separates the URLs with a
\* comma and a blank, the reader splits at the vertical bar, so the reader
\* returns one entry, the whole text of the manifest; the list is read back
\* only when it has one URL.
C26_CodeBehaviour ==
    pc = "loaded" =>
        /\ out.ok
        /\ out.urls = <<join(", ", json_files)>>
        /\ (out.urls = json_files <=> Len(json_files) = 1)

---------------------------------------------------------------------------
(* SpecRename: rename_images of the upload script on one image directory.
   disk is the directory, a function from file names to the images they
   hold; queue is the list jpgs, processed is renamed_paths, log the
   "Rename:" lines of the current call, calls the number of calls started,
   moved the images whose file a rename step replaced, limit the number of
   JPG files before the first call. *)

\* the name of the image directory
FOLDER == "k"

\* the characters of the file names, in the order of their code points
CodePoints == "-.0123456789ABCDEFGHIJKLMNOPQRSTUVWXYZ_abcdefghijklmnopqrstuvwxyz"

Code(c) == CHOOSE i \in 1..Len(CodePoints) : CharAt(CodePoints, i) = c

\* a < b for two Python strings
RECURSIVE StrLess(_, _)
StrLess(a, b) ==
    IF b = "" THEN FALSE
    ELSE IF a = "" THEN TRUE
    ELSE IF Head(a) # Head(b) THEN Code(Head(a)) < Code(Head(b))
    ELSE StrLess(Tail(a), Tail(b))

\* sorted(names, key=lambda p: p.name)
RECURSIVE sorted(_)
sorted(names) ==
    IF names = {} THEN <<>>
    ELSE LET first == CHOOSE m \in names : \A o \in names \ {m} : StrLess(m, o)
         IN  <<first>> \o sorted(names \ {first})

\* Path.suffix: the name from its last dot on
suffix(name) ==
    LET dots == {i \in 1..Len(name) : CharAt(name, i) = "."}
    IN  IF dots = {} THEN ""
        ELSE SubSeq(name, CHOOSE i \in dots : \A j \in dots : j <= i, Len(name))

is_jpg(name) == lower(suffix(name)) \in {".jpg", ".jpeg"}

iter_jpgs(directory) == sorted({name \in DOMAIN directory : is_jpg(name)})

ensure_two_digit(index) ==
    IF index < 10 THEN "0" \o NatToStr(index) ELSE NatToStr(index)

\* f"{directory.name}-{ensure_two_digit(idx)}{image_path.suffix.lower()}"
target_name(index, image_name) ==
    FOLDER \o "-" \o ensure_two_digit(index) \o lower(suffix(image_name))

\* the directory after image_path.rename(target_path) where an existing
\* target is replaced
rename(directory, name, target) ==
    [n \in (DOMAIN directory \ {name}) \cup {target} |->
        IF n = target THEN directory[name] ELSE directory[n]]

\* file names of a directory: camera names, names rename_images gives, and a
\* file that is no JPG
FileNames == {"IMG_1.JPG", "a.jpg", "k-01.jpg", "k-02.jpg", "z.jpeg", "notes.txt"}

\* a directory of a hundred images already named <folder>-NN.jpg
Hundred == {target_name(i, ".jpg") : i \in 1..100}

ImageDirectories ==
    {S \in SUBSET FileNames : Cardinality(S) <= MaxImages} \cup {Hundred}

InitRename ==
    /\ pc = "start"
    /\ \E S \in ImageDirectories :
          /\ disk = [name \in S |-> name]
          /\ limit = Cardinality({name \in S : is_jpg(name)})
    /\ args \in [dry_run : BOOLEAN]
    /\ queue = <<>> /\ moved = {} /\ json_files = <<>> /\ processed = <<>>
    /\ idx = 0 /\ mv = 0 /\ saves = 0 /\ log = <<>> /\ first_run = NoRun
    /\ text = "" /\ out = NoOut
    /\ IdleSheet

RenameFrame == <<SheetVars, json_files, mv, saves, args, first_run, text, limit, out>>

\* rename_images(directory, dry_run) is called, a first and a second time
CallRenameImages ==
    /\ pc = "start" \/ (pc = "returned" /\ calls < 2)
    /\ queue' = iter_jpgs(disk)
    /\ idx' = 1
    /\ processed' = <<>>
    /\ log' = <<>>
    /\ calls' = calls + 1
    /\ pc' = "loop"
    /\ UNCHANGED <<sheet, ret, disk, moved, json_files, mv, saves, args, first_run, TextVars>>

\* if image_path.name == target_name: append; continue
AlreadyNamed ==
    /\ pc = "loop"
    /\ idx <= Len(queue)
    /\ queue[idx] = target_name(idx, queue[idx])
    /\ processed' = Append(processed, target_name(idx, queue[idx]))
    /\ idx' = idx + 1
    /\ UNCHANGED <<pc, disk, queue, moved, log, RenameFrame>>

\* print; image_path.rename(target_path) unless dry_run; append.  Where
\* rename replaces an existing target (POSIX), the image of the target is gone.
RenameImage ==
    /\ pc = "loop"
    /\ idx <= Len(queue)
    /\ LET name == queue[idx]
           target == target_name(idx, name)
       IN  /\ name # target
           /\ log' = Append(log, [msg |-> "Rename", name |-> name])
           /\ IF args.dry_run
              THEN UNCHANGED <<disk, moved>>
              ELSE /\ disk' = rename(disk, name, target)
                   /\ moved' = IF target \in DOMAIN disk
                               THEN moved \cup {disk[target]} ELSE moved
           /\ processed' = Append(processed, target)
    /\ idx' = idx + 1
    /\ UNCHANGED <<pc, queue, RenameFrame>>

\* image_path.rename(target_path) raises FileExistsError where the platform
\* does not replace an existing target (Windows)
RenameRaises ==
    /\ pc = "loop"
    /\ idx <= Len(queue)
    /\ ~args.dry_run
    /\ queue[idx] # target_name(idx, queue[idx])
    /\ target_name(idx, queue[idx]) \in DOMAIN disk
    /\ log' = Append(log, [msg |-> "Rename", name |-> queue[idx]])
    /\ pc' = "fatal"
    /\ UNCHANGED <<disk, queue, moved, processed, idx, RenameFrame>>

\* return renamed_paths
ReturnRenamed ==
    /\ pc = "loop"
    /\ idx > Len(queue)
    /\ pc' = "returned"
    /\ UNCHANGED <<disk, queue, moved, processed, idx, log, RenameFrame>>

NextRename ==
    CallRenameImages \/ AlreadyNamed \/ RenameImage \/ RenameRaises \/ ReturnRenamed

SpecRename == InitRename /\ [][NextRename]_vars

JpgCount == Cardinality({name \in DOMAIN disk : is_jpg(name)})

\* C28: rename_images loses no image: after it has returned, the directory
\* holds as many JPG files as before, every returned path exists, no rename
\* step has replaced an existing file, and a second call performs no rename.
C28_NoImageLost ==
    (pc = "returned" /\ ~args.dry_run) =>
        /\ JpgCount = limit
        /\ Range(processed) \subseteq DOMAIN disk
        /\ moved = {}
        /\ calls = 2 => log = <<>>

\* what rename_images does: every replaced file is an image less, and where
\* no step replaced a file the count is kept, every returned path exists and
\* a second call renames nothing.
C28_CodeBehaviour ==
    (pc \in {"loop", "returned"} /\ ~args.dry_run) =>
        /\ JpgCount = limit - Cardinality(moved)
        /\ (pc = "returned" /\ moved = {}) =>
              /\ Range(processed) \subseteq DOMAIN disk
              /\ calls = 2 => log = <<>>

\* a directory of a hundred images named k-01.jpg to k-100.jpg: k-100.jpg
\* sorts before k-11.jpg, so the call renames the files from the eleventh on,
\* each onto the next, and eleven images are left of the hundred after the
\* first call
C28_HundredImages ==
    (limit = 100 /\ pc = "returned" /\ ~args.dry_run /\ calls = 1) =>
        /\ JpgCount = 11
        /\ Cardinality(moved) = 89
        /\ disk["k-100.jpg"] = "k-100.jpg"

---------------------------------------------------------------------------
(* SpecScan: the occupancy scans find_insert_row and find_next_row, one
   iteration of the while loop per step.  idx is row_index, args holds the
   function called, the column scanned and the row the scan started from. *)

ScanSheets == SheetsWith(REQUIRED_HEADERS) \cup CoerceSheets

InitScan ==
    /\ pc = "call"
    /\ sheet \in ScanSheets
    /\ ret = NoRet /\ calls = 0
    /\ disk = NoDisk /\ queue = <<>> /\ moved = {} /\ json_files = <<>>
    /\ processed = <<>> /\ idx = 0 /\ mv = 0 /\ saves = 0 /\ log = <<>>
    /\ args = NoArgs /\ first_run = NoRun
    /\ IdleText

ScanFrame == <<sheet, calls, disk, queue, moved, json_files, processed, mv, saves, log, first_run, TextVars>>

\* find_insert_row(sheet, title_col): row_index = sheet.max_row + 1
CallFindInsertRow ==
    /\ pc = "call"
    /\ \E title_col \in 1..Width(sheet) :
          args' = [fn |-> "find_insert_row", title_col |-> title_col,
                   first |-> max_row(sheet) + 1]
    /\ idx' = max_row(sheet) + 1
    /\ pc' = "scan"
    /\ UNCHANGED <<ret, ScanFrame>>

\* find_next_row(sheet, title_col_idx, start_row): row_index = start_row + 1
CallFindNextRow ==
    /\ pc = "call"
    /\ \E title_idx \in 0..(Width(sheet) - 1), start_row \in 1..Len(sheet) :
          /\ args' = [fn |-> "find_next_row", title_col |-> title_idx + 1,
                      first |-> start_row + 1]
          /\ idx' = start_row + 1
    /\ pc' = "scan"
    /\ UNCHANGED <<ret, ScanFrame>>

\* the cell is occupied: row_index += 1
ScanStep ==
    /\ pc = "scan"
    /\ ~IsBlank(cell_value(sheet, idx, args.title_col))
    /\ idx' = idx + 1
    /\ UNCHANGED <<pc, ret, args, ScanFrame>>

\* the cell is empty: return row_index
ScanReturn ==
    /\ pc = "scan"
    /\ IsBlank(cell_value(sheet, idx, args.title_col))
    /\ ret' = [ok |-> TRUE, target_row |-> idx]
    /\ pc' = "returned"
    /\ UNCHANGED <<idx, args, ScanFrame>>

NextScan == CallFindInsertRow \/ CallFindNextRow \/ ScanStep \/ ScanReturn

SpecScan == InitScan /\ [][NextScan]_vars

\* a started scan goes on: nothing in the loop waits
FairScan == SpecScan /\ WF_vars(NextScan)

\* C30: for every sheet and every Title column the occupancy scan of
\* find_insert_row and of find_next_row returns, after no more iterations
\* than the sheet has rows; the returned row has an empty Title cell and is
\* the row the recursive definitions give; for find_insert_row it is
\* max_row + 1.
C30_ScanTerminates ==
    /\ <>(pc = "returned")
    /\ [](pc = "returned" =>
            /\ IsBlank(cell_value(sheet, ret.target_row, args.title_col))
            /\ ret.target_row \in args.first..(Len(sheet) + 1)
            /\ \A r \in args.first..(ret.target_row - 1) :
                  ~IsBlank(cell_value(sheet, r, args.title_col))
            /\ args.fn = "find_insert_row" =>
                  /\ ret.target_row = Len(sheet) + 1
                  /\ ret.target_row = find_insert_row(sheet, args.title_col)
            /\ args.fn = "find_next_row" =>
                  ret.target_row = find_next_row(sheet, args.title_col - 1, args.first - 1))

\* find_next_row has returned after stepping over an occupied row, and
\* find_insert_row has returned on a sheet whose last row has an empty cell
\* in the column scanned
C30_Witness ==
    /\ pc = "returned"
    /\ \/ args.fn = "find_next_row" /\ ret.target_row > args.first
       \/ /\ args.fn = "find_insert_row"
          /\ Len(sheet) > 1
          /\ IsBlank(cell_value(sheet, Len(sheet), args.title_col))

=============================================================================
